---- MODULE Spec2Model ----
(***************************************************************************)
(* The streaming message aggregator of createClaudeSender                  *)
(* (src/unnamed/part_002): the ProgressState closure, the promise queue    *)
(* behind sendClaudeMessages, the debounce timer of scheduleEdit and the   *)
(* platform calls (sendMessage / editMessage) that are in flight.          *)
(*                                                                         *)
(* JavaScript runs to completion between awaits.  A batch whose pc is      *)
(* "loop" is inside a synchronous stretch, and nothing else runs until it  *)
(* reaches an await.  A continuation that waits only for an already        *)
(* settled promise is a microtask; timers and network completions are      *)
(* macrotasks and run only when no microtask is ready.                     *)
(*                                                                         *)
(* Strings are modelled by their lengths; a summary line keeps the batch   *)
(* and the index of the message it was made from.                          *)
(***************************************************************************)
EXTENDS Integers, Sequences, FiniteSets, TLC

\* Bounds of the model: the number of messages submitted over all batches
\* (each batch holds at least one, so also the number of batches) and the
\* number of resetProgress calls.
MaxMsgs == 2
MaxResets == 1

\* Two debounced edits in flight and a terminal message take one message more.
RaceMsgs == MaxMsgs + 1

MAX_DESCRIPTION_LENGTH == 3800

NoId == 0
NoTimer == 0
\* The identifier a caller hands to resetProgress (an already posted reply).
ResetIds == {1}
\* The identifier the platform returns for the message created for message i
\* of batch b.
NewId(b, i) == 10 * b + i

BatchIds == 1..RaceMsgs

VARIABLES
  state,          \* ProgressState
  inflightEdit,   \* the promise inflightEdit: "resolved" or "pending"
  edits,          \* editMessage calls started by the debounce timer, in flight
  timers,         \* the timeouts set by scheduleEdit that are still to fire
  batch,          \* the sendClaudeMessages calls, in call order
  resets,         \* number of resetProgress calls so far
  fresh,          \* the id given to resetProgress while nothing has happened since
  term,           \* the platform calls made for the system message handled last
  terminalIssued, \* a terminal write was issued in the current run
  budget,         \* number of messages that may still be submitted
  pushed,         \* the summary lines pushed since the last resetProgress
  rendered,       \* the lines in a rendering written since the last resetProgress
  sender,         \* the DiscordSender given to createClaudeSender
  skipMessageTypes, \* the skip set read when the sender was created
  universe,       \* the messages the Claude client delivers
  gitRepo,        \* the repository: its base directory, bare or normal
  worktrees,      \* the linked worktrees, in the order git lists them
  dirs,           \* the directories on disk beside the base directory
  branches,       \* the branches that exist as refs
  gitCalls,       \* the calls of the worktree handlers so far, with results
  gitEnv,         \* what a resolver function finds: environment, files, git
  resolved,       \* the calls of the resolver functions so far, with results
  hookFiles,      \* the hook files on disk: path and content
  hook,           \* the call of HookManager.executeHook and what it has done
  claudeController, \* the stored AbortController: the run that made it, or null
  claudeSessionId,  \* the stored session id: the run that reported it, or none
  runs,           \* the calls of the command handlers that start a run
  outbox,         \* the batches the runs gave to sendClaudeMessages, in call order
  progress,       \* the run the ProgressState was reset for, and what ended it
  cancels         \* the calls of onClaudeCancel so far, with results

\* What is fixed when the sender is created.
config == <<sender, skipMessageTypes, universe>>

senderVars ==
  <<state, inflightEdit, edits, timers, batch, resets, fresh, term, terminalIssued,
    budget, pushed, rendered, config>>

gitVars == <<gitRepo, worktrees, dirs, branches, gitCalls>>

resolverVars == <<gitEnv, resolved>>

hookVars == <<hookFiles, hook>>

runVars == <<claudeController, claudeSessionId, runs, outbox, progress, cancels>>

\* The variables the sender never touches.
outside == <<gitVars, resolverVars, hookVars, runVars>>

\* The variables the worktree handlers, the resolver functions and the hook
\* manager never touch.
notGit == <<senderVars, resolverVars, hookVars, runVars>>
notResolver == <<senderVars, gitVars, hookVars, runVars>>
notHooks == <<senderVars, gitVars, resolverVars, runVars>>
notRuns == <<senderVars, gitVars, resolverVars, hookVars>>

vars == <<senderVars, gitVars, resolverVars, hookVars, runVars>>

-----------------------------------------------------------------------------
(* Messages *)

Msg(type, subtype, name, n, k) ==
  [type |-> type, subtype |-> subtype, name |-> name, n |-> n, k |-> k]

\* n: length of the trimmed content
TextMsg(n) == Msg("text", "none", "none", n, 0)
\* n: length of the name-specific input (file path, command, pattern, ...)
ToolUseMsg(name, n) == Msg("tool_use", "none", name, n, 0)
\* n: length of msg.content (the error text of a failure)
SystemMsg(subtype, n) == Msg("system", subtype, "none", n, 0)

MsgUniverse ==
  { TextMsg(5), SystemMsg("completion", 0), SystemMsg("failure", 7) }

\* Text, a system message that is not terminal and one that is.
SystemUniverse ==
  { TextMsg(5), SystemMsg("shutdown", 0), SystemMsg("completion", 0) }

\* Tool calls whose summary lines are long: two of the first exceed
\* MAX_DESCRIPTION_LENGTH together, the second does so alone.
TrimUniverse ==
  { ToolUseMsg("Grep", 2000), ToolUseMsg("Grep", 3790), SystemMsg("completion", 0) }

Digits(n) ==
  IF n < 10 THEN 1 ELSE IF n < 100 THEN 2 ELSE IF n < 1000 THEN 3 ELSE 4

Truncated(n, cap) == IF n > cap THEN cap + 3 ELSE n

\* Length of the summary line of a message, 0 for null.
MessageToSummaryLine(msg) ==
  CASE msg.type = "text" ->
         IF msg.n = 0 THEN 0 ELSE 3 + Truncated(msg.n, 1000)
    [] msg.type = "tool_use" ->
         (CASE msg.name = "TodoWrite" -> 19 + Digits(msg.n)
            [] msg.name \in {"Edit", "Read"} -> 13 + (IF msg.n = 0 THEN 7 ELSE msg.n)
            [] msg.name = "Write" -> 14 + (IF msg.n = 0 THEN 7 ELSE msg.n)
            [] msg.name = "Bash" -> 13 + Truncated(msg.n, 80)
            [] msg.name \in {"Glob", "Grep"} -> 13 + msg.n
            [] msg.name = "Task" -> 11 + msg.n
            [] OTHER -> 15 + Truncated(msg.n, 80))
    [] msg.type = "tool_result" ->
         IF msg.n = 0 THEN 0
         ELSE IF msg.k <= 1 /\ msg.n <= 100 THEN 9 + msg.n
         ELSE 17 + Digits(msg.k)
    [] msg.type = "thinking" ->
         IF msg.n = 0 THEN 11 ELSE 12 + Truncated(msg.n, 150)
    [] msg.type = "other" -> 21
    [] OTHER -> 0

\* A tag of the skip set is <<type, "*">> or <<type, subtype>>.
ShouldSkipMessage(msg, skip) ==
  \/ <<msg.type, "*">> \in skip
  \/ /\ msg.subtype # "none"
     /\ <<msg.type, msg.subtype>> \in skip

\* CLAUDE_SKIP_MESSAGE_TYPES of the process (unset)
GetSkipMessageTypes == {}

\* The skip sets of CLAUDE_SKIP_MESSAGE_TYPES = "system:completion",
\* "system" and "text".
SkipSets ==
  { {<<"system", "completion">>}, {<<"system", "*">>}, {<<"text", "*">>} }

IsInternalSystem(msg) ==
  msg.type = "system" /\ msg.subtype \in {"completion", "failure"}

Skipped_NoExemption(msg, skip) == ShouldSkipMessage(msg, skip)

\* processMessages leaves the message out: it is in the skip set and is not
\* a completion or failure message.
Skipped(msg, skip) == ~IsInternalSystem(msg) /\ ShouldSkipMessage(msg, skip)

-----------------------------------------------------------------------------
(* ProgressState and its rendering *)

InitialState ==
  [messageId |-> NoId, lines |-> <<>>, trimmedCount |-> 0, prompt |-> "",
   editTimer |-> NoTimer, pendingEdit |-> FALSE, finished |-> FALSE,
   fullTextMessages |-> <<>>]

\* The description: the trimmed-count header and the lines.
BuildProgressDescription(s) ==
  [trimmed |-> s.trimmedCount, lines |-> s.lines]

RECURSIVE JoinedLength(_)
JoinedLength(ls) ==
  IF Len(ls) = 0 THEN 0
  ELSE IF Len(ls) = 1 THEN ls[1].len
  ELSE ls[1].len + 2 + JoinedLength(Tail(ls))

DescriptionLength(d) ==
  (IF d.trimmed > 0 THEN 33 + Digits(d.trimmed) ELSE 0) + JoinedLength(d.lines)

RECURSIVE TrimLines_DropNewest(_)
TrimLines_DropNewest(s) ==
  IF Len(s.lines) > 1
     /\ DescriptionLength(BuildProgressDescription(s)) > MAX_DESCRIPTION_LENGTH
  THEN TrimLines_DropNewest([s EXCEPT !.lines = SubSeq(@, 1, Len(@) - 1),
                                      !.trimmedCount = @ + 1])
  ELSE s

RECURSIVE TrimLines_ToEmpty(_)
TrimLines_ToEmpty(s) ==
  IF Len(s.lines) > 0
     /\ DescriptionLength(BuildProgressDescription(s)) > MAX_DESCRIPTION_LENGTH
  THEN TrimLines_ToEmpty([s EXCEPT !.lines = Tail(@), !.trimmedCount = @ + 1])
  ELSE s

\* trimLines: shift the oldest line while the description is too long and
\* more than one line is held.
RECURSIVE TrimLines(_)
TrimLines(s) ==
  IF Len(s.lines) > 1
     /\ DescriptionLength(BuildProgressDescription(s)) > MAX_DESCRIPTION_LENGTH
  THEN TrimLines([s EXCEPT !.lines = Tail(@), !.trimmedCount = @ + 1])
  ELSE s

PushFront(lines, line) == <<line>> \o lines

\* state.lines.push(summaryLine)
Push(lines, line) == Append(lines, line)

FlushEditReturnsEarly_Always(s) == TRUE

\* flushEdit returns without a platform call
FlushEditReturnsEarly(s) == s.messageId = NoId \/ s.finished

NeverFlush(s) == FALSE

\* the forced flush of processMessages before a system message is sent
ForcedFlushNeeded(s) == s.pendingEdit \/ s.messageId # NoId

IgnoreMessageId(messageId) == NoId

\* resetProgress: messageId || null
ResetMessageId(messageId) == messageId

-----------------------------------------------------------------------------
(* The DiscordSender *)

\* "interface": a DiscordSender whose editMessage rejects when the platform
\* refuses the edit; "adapter": the one createDiscordSenderAdapter builds.
Senders == {"interface", "adapter"}

\* Whether the promise of editMessage resolves, ok being whether the platform
\* applied the edit.  The adapter catches every error of the edit and
\* returns, and returns at once when there is no channel.
EditMessageResolves(snd, ok) == snd = "adapter" \/ ok

-----------------------------------------------------------------------------
(* The promise queue *)

NoBatch ==
  [msgs |-> <<>>, st |-> "none", i |-> 1, pc |-> "idle", embed |-> <<>>,
   run |-> 0, overlap |-> FALSE, threw |-> "none"]

NumSubmitted == Cardinality({b \in BatchIds : batch[b].st # "none"})

ThenResult_NoReturn(b) ==
  IF b = 0 \/ batch[b].st \in {"running", "returned", "threw"} THEN "resolved"
  ELSE IF batch[b].st = "skipped" THEN "rejected"
  ELSE "pending"

\* messageQueue.then(() => processMessages(messages)): the promise follows the
\* one processMessages returns; the callback of a rejected promise is skipped.
\* Batch 0 stands for the initial Promise.resolve().
ThenResult(b) ==
  IF b = 0 \/ batch[b].st = "returned" THEN "resolved"
  ELSE IF batch[b].st \in {"threw", "skipped"} THEN "rejected"
  ELSE "pending"

QueueNoCatch(r) == r

\* .catch(() => {})
QueueCatch(r) == IF r = "rejected" THEN "resolved" ELSE r

\* The promise sendClaudeMessages returned for batch b (messageQueue after
\* the call).
PromiseState(b) == QueueCatch(ThenResult(b))

CanStart_NoQueue(b) == TRUE

\* The then-callback of batch b runs once the promise before it has settled.
CanStart(b) == PromiseState(b - 1) # "pending"

Running(b) == batch[b].st = "running"

\* A batch is inside a synchronous stretch of processMessages.
Sync == \E b \in BatchIds : Running(b) /\ batch[b].pc = "loop"

\* A continuation is ready in the microtask queue.
MicroReady ==
  \E b \in BatchIds :
    \/ Running(b) /\ batch[b].pc = "flushed"
    \/ Running(b) /\ batch[b].pc = "inflightWait" /\ inflightEdit = "resolved"
    \/ batch[b].st = "queued" /\ CanStart(b)

MacroTask == ~Sync /\ ~MicroReady

CurMsg(b) == batch[b].msgs[batch[b].i]

NoTerm ==
  [b |-> 0, i |-> 0, run |-> 0, terminal |-> FALSE, pend |-> FALSE,
   fresh |-> NoId, calls |-> <<>>, done |-> FALSE, reset |-> FALSE]

Call(op, kind, target, desc) ==
  [op |-> op, kind |-> kind, target |-> target, desc |-> desc, res |-> "pending"]

SetLastRes(t, res) ==
  [t EXCEPT !.calls = [@ EXCEPT ![Len(@)] = [@ EXCEPT !.res = res]]]

-----------------------------------------------------------------------------
(* Git worktrees (src/git/handler.ts, src/git/repo-helpers.ts)             *)
(*                                                                         *)
(* A path is a sequence of components and a component a sequence of words: *)
(* <<"my", "projects">> is the directory name "my projects".  A branch is  *)
(* the sequence of the segments its name has between slashes.              *)

MaxCalls == 2

\* The number of linked worktrees in a listing given to a resolver function.
MaxListed == 2

\* The sequences of at most n distinct members of S.
DistinctSeqs(S, n) ==
  {l \in UNION {[1..k -> S] : k \in 0..n} :
     \A i, j \in DOMAIN l : l[i] = l[j] => i = j}

Dir(w) == <<w>>
DotDot == Dir("..")

\* null, and the empty fullPath of removeWorktree
NoPath == <<>>

BaseDirs ==
  { <<Dir("srv"), Dir("repo")>>, <<<<"my", "projects">>, Dir("repo")>> }

Branches == { <<"feat">>, <<"locked">>, <<"fix", "x">> }

MainBranch == <<"main">>
OtherBranch == <<"other">>

BranchPath(branch) == [k \in DOMAIN branch |-> Dir(branch[k])]

\* What the file system and git make of a path: ".." leaves a directory.
RECURSIVE Normalize(_)
Normalize(p) ==
  IF p = <<>> THEN <<>>
  ELSE LET q == Normalize(SubSeq(p, 1, Len(p) - 1)) IN
       IF p[Len(p)] = DotDot
       THEN (IF q = <<>> THEN <<>> ELSE SubSeq(q, 1, Len(q) - 1))
       ELSE Append(q, p[Len(p)])

\* The path git registers for a worktree added at p, and lists.
RegisteredPath(p) == Normalize(p)

\* The number of blanks in the text of a path.
RECURSIVE Blanks(_)
Blanks(p) ==
  IF p = <<>> THEN 0 ELSE (Len(p[1]) - 1) + Blanks(Tail(p))

\* text.split(/\s+/)[0] of a path: the text up to its first blank.
RECURSIVE FirstPart(_)
FirstPart(p) ==
  IF p = <<>> THEN <<>>
  ELSE IF Len(p[1]) > 1 THEN <<Dir(p[1][1])>>
  ELSE <<p[1]>> \o FirstPart(Tail(p))

\* parts[0] of a line of the listing that begins with path p
Parts0(p) == FirstPart(p)

Token(k, v) == [k |-> k, v |-> v]

\* The blank-separated parts of the text of a path.
PathTokens(p) ==
  <<Token("path", Parts0(p))>> \o [j \in 1..Blanks(p) |-> Token("pathrest", <<>>)]

\* A line of `git worktree list`: path, commit, [branch], then the
\* annotation of a locked worktree.
WorktreeLine(w) ==
  PathTokens(w.path) \o <<Token("sha", <<>>), Token("bracket", w.branch)>> \o
  (IF w.locked THEN <<Token("word", <<"locked">>)>> ELSE <<>>)

\* The first line: the bare repository, or the main worktree of a normal one.
MainLine(repo) ==
  IF repo.bare THEN PathTokens(repo.base) \o <<Token("paren", <<"bare">>)>>
  ELSE WorktreeLine([path |-> repo.base, branch |-> MainBranch, locked |-> FALSE])

\* The output of `git worktree list`, line by line.
WorktreeListOutput(repo, wts) ==
  <<MainLine(repo)>> \o [k \in DOMAIN wts |-> WorktreeLine(wts[k])]

\* line.includes(`[${branch}]`) || line.endsWith(` ${branch}`)
LineMatches(line, branch) ==
  \/ \E j \in DOMAIN line : line[j] = Token("bracket", branch)
  \/ Len(line) >= 2 /\ line[Len(line)] = Token("word", branch)

\* findWorktreeForBranch: parts[0] of the first line that matches, or null.
FindWorktreeForBranch(lines, branch) ==
  LET hits == {k \in DOMAIN lines : LineMatches(lines[k], branch)} IN
  IF hits = {} THEN NoPath
  ELSE LET k == CHOOSE k \in hits : \A h \in hits : k <= h IN lines[k][1].v

\* resolveBaseRepoDir of the repository's own directory
ResolveBaseRepoDir(repo) == repo.base

\* isBareRepository: the answer of git rev-parse --is-bare-repository
IsBareRepository(repo) == repo.bare

\* worktreeDir of createWorktree
WorktreeDir(base, isBare, branch) ==
  IF isBare THEN base \o BranchPath(branch)
  ELSE base \o <<DotDot>> \o BranchPath(branch)

Prefixes(p) == {SubSeq(p, 1, k) : k \in 1..Len(p)}

\* Deno.stat(p) succeeds: the base directory and the directories above it
\* exist, as do those of ds.
OnDisk(repo, ds, p) ==
  Normalize(p) \in ds \cup Prefixes(repo.base)

StatSucceeds_Never(repo, ds, p) == FALSE

\* Deno.stat(worktreeDir) of createWorktree does not throw.
StatSucceeds(repo, ds, p) == OnDisk(repo, ds, p)

\* dirname(p)
Dirname(p) == SubSeq(p, 1, Len(p) - 1)

\* Deno.mkdir(p, {recursive: true})
MkdirRecursive(repo, ds, p) ==
  ds \cup {q \in Prefixes(Normalize(p)) : ~OnDisk(repo, ds, q)}

\* The branches checked out in a worktree.
CheckedOut(repo, wts) ==
  {wts[k].branch : k \in DOMAIN wts} \cup (IF repo.bare THEN {} ELSE {MainBranch})

\* git worktree add p [-b] branch, the command line split at blanks: git
\* accepts it when the path is one argument, nothing is at the path, the
\* branch is not checked out and -b names a new branch.
WorktreeAddSucceeds(repo, wts, ds, brs, p, branch, create) ==
  /\ Blanks(p) = 0
  /\ ~OnDisk(repo, ds, p)
  /\ branch \notin CheckedOut(repo, wts)
  /\ create <=> branch \notin brs

\* git worktree remove p --force: p is a linked worktree that is not locked.
WorktreeRemoveSucceeds(wts, p) ==
  \E k \in DOMAIN wts : wts[k].path = Normalize(p) /\ ~wts[k].locked

Without(wts, p) == SelectSeq(wts, LAMBDA w : w.path # p)

GitCmd(cmd, path, ok) == [cmd |-> cmd, path |-> path, ok |-> ok]

-----------------------------------------------------------------------------
(* The resolver functions on text (src/git/repo-helpers.ts).  A text is a   *)
(* sequence of characters; the output of git is a sequence of lines.       *)

Whitespace == {" ", "\n"}

\* s.startsWith(p), s.endsWith(p), s.includes(p)
StartsWith(s, p) == Len(p) <= Len(s) /\ SubSeq(s, 1, Len(p)) = p
EndsWith(s, p) == Len(p) <= Len(s) /\ SubSeq(s, Len(s) - Len(p) + 1, Len(s)) = p
Includes(s, p) == \E k \in 0..(Len(s) - Len(p)) : SubSeq(s, k + 1, k + Len(p)) = p

RECURSIVE TrimStart(_)
TrimStart(s) ==
  IF s # <<>> /\ s[1] \in Whitespace THEN TrimStart(Tail(s)) ELSE s

RECURSIVE TrimEnd(_)
TrimEnd(s) ==
  IF s # <<>> /\ s[Len(s)] \in Whitespace
  THEN TrimEnd(SubSeq(s, 1, Len(s) - 1)) ELSE s

\* s.trim()
Trim(s) == TrimEnd(TrimStart(s))

RECURSIVE UpToWhitespace(_)
UpToWhitespace(s) ==
  IF s = <<>> \/ s[1] \in Whitespace THEN <<>>
  ELSE <<s[1]>> \o UpToWhitespace(Tail(s))

\* s.trim().split(/\s+/)[0]
FirstPartOf(s) == UpToWhitespace(Trim(s))

Lower(c) ==
  CASE c = "T" -> "t" [] c = "R" -> "r" [] c = "U" -> "u" [] c = "E" -> "e"
    [] OTHER -> c

\* s.toLowerCase()
ToLowerCase(s) == [k \in DOMAIN s |-> Lower(s[k])]

\* An environment variable: unset, or set to a text.
Unset == [set |-> FALSE, value |-> <<>>]
SetTo(text) == [set |-> TRUE, value |-> text]

\* The values GIT_BARE_REPO may have: unset, true in three spellings,
\* false, 1 and the empty text.
BareOverrides ==
  { Unset, SetTo(<<"t", "r", "u", "e">>), SetTo(<<"T", "R", "U", "E">>),
    SetTo(<<"T", "r", "u", "e">>), SetTo(<<"f", "a", "l", "s", "e">>),
    SetTo(<<"1">>), SetTo(<<>>) }

\* What becomes of `git rev-parse --is-bare-repository`: the command cannot
\* be started, git exits with 128 (no repository), or git answers.
BareQueries ==
  {[kind |-> "throws"], [kind |-> "fails"]} \cup
  {[kind |-> "answers", answer |-> a] : a \in BOOLEAN}

\* The exit code and the standard output of the command.
ExitCode(tool) == IF tool.kind = "answers" THEN 0 ELSE 128

BareQueryStdout(tool) ==
  IF tool.kind # "answers" THEN <<>>
  ELSE IF tool.answer THEN <<"t", "r", "u", "e", "\n">>
  ELSE <<"f", "a", "l", "s", "e", "\n">>

IsTrueText(text) == ToLowerCase(text) = <<"t", "r", "u", "e">>

IsBareRepositoryIn_NoOverride(override, tool) ==
  tool.kind = "answers" /\ IsTrueText(Trim(BareQueryStdout(tool)))

\* isBareRepository: the override first, then the answer of git; false when
\* the command throws or exits with another code than 0.
IsBareRepositoryIn(override, tool) ==
  LET envBareOverride == override.set /\ IsTrueText(override.value) IN
  IF envBareOverride THEN TRUE
  ELSE IF tool.kind = "throws" THEN FALSE
  ELSE IF ExitCode(tool) = 0 THEN IsTrueText(Trim(BareQueryStdout(tool)))
  ELSE FALSE

\* The abbreviated commit of a line of the listing.
Sha == <<"0", "f">>

\* A line of `git worktree list` as text: the path, blanks, the commit,
\* the branch in brackets, and "locked" behind it for a locked worktree.
ListLine(w) ==
  w.path \o <<" ", " ">> \o Sha \o <<" ", "[">> \o w.branch \o <<"]">> \o
  (IF w.locked THEN <<" ", "l", "o", "c", "k", "e", "d">> ELSE <<>>)

\* The line of the bare repository itself.
BareLine(dir) == dir \o <<" ", " ", "(", "b", "a", "r", "e", ")">>

\* The lines of `git worktree list` in a bare repository at dir with the
\* worktrees ws.
ListText(dir, ws) == <<BareLine(dir)>> \o [k \in DOMAIN ws |-> ListLine(ws[k])]

LineMatchesText_Substring(line, branch) == Includes(line, branch)

\* line.includes(`[${branch}]`) || line.endsWith(` ${branch}`)
LineMatchesText(line, branch) ==
  \/ Includes(line, <<"[">> \o branch \o <<"]">>)
  \/ EndsWith(line, <<" ">> \o branch)

\* findWorktreeForBranch on the text of the listing: parts[0] of the first
\* line that matches, or null.
FindWorktreeForBranchIn(lines, branch) ==
  LET hits == {k \in DOMAIN lines : LineMatchesText(lines[k], branch)} IN
  IF hits = {} THEN NoPath
  ELSE LET k == CHOOSE k \in hits : \A h \in hits : k <= h
       IN FirstPartOf(lines[k])

\* Worktrees of a bare repository at /r (or at "/my r"), as git has them
\* registered: for the branches fa and f/x, a locked one for the branch o,
\* and one below a directory with a blank in its name.
RepoDirText == <<"/", "r">>

ListedWorktrees ==
  { [path |-> <<"/", "r", "/", "f", "a">>, branch |-> <<"f", "a">>, locked |-> FALSE],
    [path |-> <<"/", "r", "/", "f", "/", "x">>, branch |-> <<"f", "/", "x">>,
     locked |-> FALSE],
    [path |-> <<"/", "r", "/", "o">>, branch |-> <<"o">>, locked |-> TRUE],
    [path |-> <<"/", "m", "y", " ", "r", "/", "f">>, branch |-> <<"f">>,
     locked |-> FALSE] }

\* The branches asked for: those listed, a prefix (f), parts (a, x) and the
\* word of the annotation.
QueriedBranches ==
  { <<"f", "a">>, <<"f", "/", "x">>, <<"o">>, <<"f">>, <<"a">>, <<"x">>,
    <<"l", "o", "c", "k", "e", "d">> }

\* The listings: some of the worktrees, in any order.
Listings == DistinctSeqs(ListedWorktrees, MaxListed)

-----------------------------------------------------------------------------
(* The resolver functions on paths of components *)

\* getWorktreeList: parts[0] of every line of the listing.
GetWorktreeList(repo, wts) ==
  LET lines == WorktreeListOutput(repo, wts) IN
  [k \in DOMAIN lines |-> lines[k][1].v]

\* p.startsWith(d + '/')
IsInside(p, d) == Len(p) > Len(d) /\ StartsWith(p, d)

\* The final segment is main or master:
\* wt.endsWith('/main') || wt.endsWith('/master')
IsPreferred(p) == p # <<>> /\ p[Len(p)] \in {Dir("main"), Dir("master")}

First(l, Test(_)) ==
  LET hits == {k \in DOMAIN l : Test(l[k])} IN
  IF hits = {} THEN NoPath
  ELSE l[CHOOSE k \in hits : \A h \in hits : k <= h]

\* findWorktreeForBareRepo: list is the result of getWorktreeList, disk the
\* paths Deno.stat finds, marked those with a .git file holding "gitdir:".
FindWorktreeForBareRepo(bareRepoDir, list, disk, marked) ==
  LET candidateWorktrees ==
        SelectSeq(list, LAMBDA p : IsInside(p, bareRepoDir) /\ p \in disk /\ p \in marked)
      preferredBranch == First(candidateWorktrees, IsPreferred)
  IN IF candidateWorktrees = <<>> THEN NoPath
     ELSE IF preferredBranch # NoPath THEN preferredBranch
     ELSE candidateWorktrees[1]

\* A path as git prints it or a file holds it: absolute, or relative to the
\* directory it was asked in.
Printed(abs, p) == [abs |-> abs, path |-> p]

\* resolve(workDir, text) of node:path
Resolve(workDir, t) ==
  Normalize(SelectSeq(IF t.abs THEN t.path ELSE workDir \o t.path,
                      LAMBDA c : c # Dir(".")))

\* gitDir.includes("/worktrees/"): a directory worktrees with something in it.
InWorktrees(p) == \E k \in 1..(Len(p) - 1) : p[k] = Dir("worktrees")

\* gitDir.split("/worktrees/")[0]
BeforeWorktrees(p) ==
  LET k == CHOOSE k \in 1..(Len(p) - 1) :
             /\ p[k] = Dir("worktrees")
             /\ \A j \in 1..(k - 1) : p[j] # Dir("worktrees")
  IN SubSeq(p, 1, k - 1)

\* The repository the worktrees of the model belong to.
MainRepoDir == <<Dir("srv"), Dir("main")>>

\* What workDir is: the root of a plain repository or a directory in one, a
\* worktree of a normal or of a bare repository, a bare repository, the .git
\* directory of a normal repository, or no repository.
RepoKinds ==
  {"plain", "inPlain", "worktree", "bareWorktree", "bare", "gitDir", "none"}

\* Whether git can be run: it answers, exits with another code than 0, or
\* cannot be started.
ToolHealth == {"ok", "fails", "throws"}

\* The file workDir/.git: a worktree has one that names its git directory;
\* elsewhere .git is a directory or missing and the read throws.
GitFile(kind, workDir) ==
  CASE kind = "worktree" ->
         [kind |-> "gitdir",
          to |-> Printed(TRUE, MainRepoDir \o <<Dir(".git"), Dir("worktrees"), Dir("wt")>>)]
    [] kind = "bareWorktree" ->
         [kind |-> "gitdir",
          to |-> Printed(TRUE, MainRepoDir \o <<Dir("worktrees"), Dir("wt")>>)]
    [] OTHER -> [kind |-> "none"]

\* What `git rev-parse --git-dir` prints in workDir.
GitDirOutput(kind, workDir) ==
  CASE kind = "plain" -> Printed(FALSE, <<Dir(".git")>>)
    [] kind = "inPlain" -> Printed(TRUE, Dirname(workDir) \o <<Dir(".git")>>)
    [] kind = "worktree" ->
         Printed(TRUE, MainRepoDir \o <<Dir(".git"), Dir("worktrees"), Dir("wt")>>)
    [] kind = "bareWorktree" ->
         Printed(TRUE, MainRepoDir \o <<Dir("worktrees"), Dir("wt")>>)
    [] OTHER -> Printed(FALSE, <<Dir(".")>>)

\* The command of method 2 exits with 0.
GitDirQueryOk(kind, health) == health = "ok" /\ kind # "none"

\* resolveBaseRepoDir: the .git file first, then git rev-parse --git-dir.
ResolveBaseRepoDirIn(workDir, kind, health) ==
  LET gitFile == GitFile(kind, workDir) IN
  IF gitFile.kind = "gitdir"
  THEN LET gitDir == Resolve(workDir, gitFile.to) IN
       IF InWorktrees(gitDir) THEN BeforeWorktrees(gitDir) ELSE workDir
  ELSE IF ~GitDirQueryOk(kind, health) THEN workDir
  ELSE LET gitDir == Resolve(workDir, GitDirOutput(kind, workDir)) IN
       IF InWorktrees(gitDir) THEN BeforeWorktrees(gitDir)
       ELSE IF gitDir # <<>> /\ gitDir[Len(gitDir)] = Dir(".git") THEN workDir
       ELSE gitDir

\* The directories resolveBaseRepoDir is asked about.
WorkDirs == BaseDirs \cup {<<Dir("srv"), Dir("worktrees"), Dir("repo")>>}

-----------------------------------------------------------------------------
(* executeGitCommand (src/git/handler.ts).  The texts of its results are   *)
(* sequences of words; the fixed texts of the code are one word each.      *)

\* What becomes of the command: Deno.Command throws with a message, or git
\* runs and exits with a code, having written to stdout and stderr.
Thrown(message) == [kind |-> "throws", message |-> message]
Exited(code, stdout, stderr) ==
  [kind |-> "exits", code |-> code, stdout |-> stdout, stderr |-> stderr]

GitOutcomes ==
  {Thrown(<<"No such file or directory">>)} \cup
  {Exited(code, out, err) :
     code \in {0, 1}, out \in {<<>>, <<"nothing to commit">>},
     err \in {<<>>, <<"fatal: not a git repository">>}}

\* a || b || c of texts
OrElse(a, b, c) == IF a # <<>> THEN a ELSE IF b # <<>> THEN b ELSE c

\* executeGitCommand: the text it returns.
ExecuteGitCommand(outcome) ==
  IF outcome.kind = "throws" THEN <<"Execution error: ">> \o outcome.message
  ELSE IF outcome.code # 0
  THEN IF outcome.stderr # <<>> /\ outcome.stdout = <<>>
       THEN <<"Error:\n">> \o outcome.stderr
       ELSE OrElse(outcome.stdout, outcome.stderr,
                   <<"Command failed with exit code ", ToString(outcome.code)>>)
  ELSE OrElse(outcome.stdout, outcome.stderr, <<"Command executed successfully.">>)

IsCheckError_CommandFailed(text) ==
  \E k \in DOMAIN text : text[k] = "Command failed with exit code "

\* isCheckError of createWorktree: how a caller tells a failure from the
\* text.
IsCheckError(text) ==
  \/ text # <<>> /\ text[1] = "Execution error: "
  \/ text # <<>> /\ text[1] = "Error:\n"
  \/ \E k \in DOMAIN text : text[k] = "Command failed with exit code "

\* A worktree git lists at path p; onDisk: its directory exists; marked: the
\* directory holds the .git file of a worktree.
Listed(p, branch, onDisk, marked) ==
  [path |-> p, branch |-> branch, locked |-> FALSE, onDisk |-> onDisk,
   marked |-> marked]

\* The worktrees of a bare repository at d: three directly below it (feat,
\* main, master), one for the branch fix/x, one whose directory is gone, one
\* whose directory is no worktree any more, and one beside the repository.
BareWorktrees(d) ==
  { Listed(d \o <<Dir("feat")>>, <<"feat">>, TRUE, TRUE),
    Listed(d \o <<Dir("main")>>, <<"main">>, TRUE, TRUE),
    Listed(d \o <<Dir("master")>>, <<"master">>, TRUE, TRUE),
    Listed(d \o BranchPath(<<"fix", "x">>), <<"fix", "x">>, TRUE, TRUE),
    Listed(d \o <<Dir("gone")>>, <<"gone">>, FALSE, FALSE),
    Listed(d \o <<Dir("plain")>>, <<"plain">>, TRUE, FALSE),
    Listed(Normalize(d \o <<DotDot, Dir("other")>>), OtherBranch, TRUE, TRUE) }

\* The paths Deno.stat finds.
Disk(d, ws) ==
  Prefixes(d) \cup UNION {Prefixes(ws[k].path) : k \in {j \in DOMAIN ws : ws[j].onDisk}}

\* The paths p with a file p/.git that holds "gitdir:".
Marked(ws) == {ws[k].path : k \in {j \in DOMAIN ws : ws[j].onDisk /\ ws[j].marked}}

-----------------------------------------------------------------------------
(* The hook manager (src/hooks/hook-manager.ts).  A text is a sequence of  *)
(* atoms: a brace, a hyphen, a blank, or a word of word characters.        *)

\* The number of message batches a hook's run streams.
MaxChunks == 1

\* The number of fragments a hook file is made of.
MaxFragments == 2

IsWordAtom(a) == a \notin {"{", "}", "-", " "}

\* The last index of the run of word atoms of s that begins at i (i - 1 if
\* there is none).
RECURSIVE WordRunEnd(_, _)
WordRunEnd(s, i) ==
  IF i <= Len(s) /\ IsWordAtom(s[i]) THEN WordRunEnd(s, i + 1) ELSE i - 1

\* The properties every object inherits from Object.prototype.
ObjectPrototypeKeys == {<<"constructor">>, <<"toString">>}

Undefined == <<"undefined">>

\* variables[key]: the own property, else the inherited one, a function,
\* which replace() turns into its source text.
Property(variables, key) ==
  IF key \in DOMAIN variables THEN variables[key]
  ELSE IF key \in ObjectPrototypeKeys THEN <<"function ", key[1], "() { [native code] }">>
  ELSE Undefined

\* variables[key] ?? match
Replacement(variables, key, match) ==
  IF Property(variables, key) # Undefined THEN Property(variables, key) ELSE match

\* content.replace(/\{\{(\w+)\}\}/g, ...) from index i on.
RECURSIVE ReplaceFrom(_, _, _)
ReplaceFrom(content, i, variables) ==
  IF i > Len(content) THEN <<>>
  ELSE LET j == WordRunEnd(content, i + 2)
           matches ==
             /\ i + 1 <= Len(content) /\ content[i] = "{" /\ content[i + 1] = "{"
             /\ j >= i + 2 /\ j + 2 <= Len(content)
             /\ content[j + 1] = "}" /\ content[j + 2] = "}"
       IN IF matches
          THEN Replacement(variables, SubSeq(content, i + 2, j),
                           SubSeq(content, i, j + 2))
               \o ReplaceFrom(content, j + 3, variables)
          ELSE <<content[i]>> \o ReplaceFrom(content, i + 1, variables)

\* applyTemplate
ApplyTemplate(content, variables) == ReplaceFrom(content, 1, variables)

\* {{key}}
Placeholder(key) == <<"{", "{">> \o key \o <<"}", "}">>

\* The pieces hook files are made of: placeholders for branch, for a key no
\* caller sets, for two names every object has and for a key with a hyphen,
\* plain text, and braces that form no placeholder.
Fragments ==
  { Placeholder(<<"branch">>), Placeholder(<<"unknown">>),
    Placeholder(<<"constructor">>), Placeholder(<<"toString">>),
    Placeholder(<<"base", "-", "dir">>),
    <<"text">>, <<"{">>, <<"}", "}">>, <<"{", "{", "}", "}">> }

RECURSIVE Flatten(_)
Flatten(fs) == IF fs = <<>> THEN <<>> ELSE fs[1] \o Flatten(Tail(fs))

HookContents ==
  {Flatten(fs) : fs \in UNION {[1..k -> Fragments] : k \in 1..MaxFragments}}

\* The variables a caller passes: none, the branch, or the branch and a
\* key with a hyphen.
VariableMaps ==
  { <<>>,
    (<<"branch">> :> <<"feat">>),
    (<<"branch">> :> <<"feat">>) @@ (<<"base", "-", "dir">> :> <<"/srv">>) }

\* The directories of the hook manager, and the one a caller may pass as
\* workDirOverride.
HooksDir == <<Dir("app"), Dir("hooks")>>
HookWorkDir == <<Dir("srv"), Dir("repo")>>
WorkDirOverride == <<Dir("srv"), Dir("wt")>>

EventNames == {"worktree", "worktree-create"}

\* The file <eventName>.md in a directory.
HookFile(dir, eventName) == dir \o <<<<eventName, ".md">>>>

\* The places a hook file may lie at.
HookPlaces(eventName) ==
  { HookFile(HooksDir, eventName),
    HookFile(HookWorkDir \o <<Dir("hooks")>>, eventName),
    HookFile(WorkDirOverride \o <<Dir("hooks")>>, eventName) }

HookPath_WorkDirFirst(hooksDir, workDir, eventName) ==
  HookFile(workDir \o <<Dir("hooks")>>, eventName)

\* hookPath of executeHook: join(this.hooksDir, `${eventName}.md`)
HookPath(hooksDir, workDir, eventName) ==
  Normalize(hooksDir \o <<<<eventName, ".md">>>>)

\* readHookFile: the content, or null when the read throws.
Null == <<"null">>

ReadHookFile_Default(files, filePath) ==
  IF \E f \in files : f.path = filePath
  THEN (CHOOSE f \in files : f.path = filePath).content
  ELSE <<"text">>

ReadHookFile(files, filePath) ==
  IF \E f \in files : f.path = filePath
  THEN (CHOOSE f \in files : f.path = filePath).content
  ELSE Null

-----------------------------------------------------------------------------
(* The runs of the assistant (src/claude/client.ts) and the command        *)
(* handlers that start them (createClaudeHandlers).  A run is one call of  *)
(* onClaude, onClaudePlan, onContinue or onContinuePlan.  The message of   *)
(* an error is a sequence of words and digits.                             *)

\* The number of runs started, of events a run streams before it is
\* aborted, and of calls of onClaudeCancel.
MaxRuns == 2
MaxEvents == 1
MaxCancels == 1

RunIds == 1..MaxRuns

\* null, for the controller; undefined, for a session id
NoController == 0
NoSession == 0

Handlers == {"onClaude", "onClaudePlan", "onContinue", "onContinuePlan"}

\* What the iterator of the query throws.
AbortError == [name |-> "AbortError", message |-> <<"aborted">>]
ExitError(digits) ==
  [name |-> "Error",
   message |-> <<"Claude Code process ", "exited with code ">> \o digits]
Errors ==
  { AbortError, ExitError(<<"1">>), ExitError(<<"2">>),
    ExitError(<<"1", "3", "7">>), ExitError(<<"1", "4", "3">>),
    [name |-> "Error", message |-> <<"fetch failed">>] }

IsAbort_ByName(error, aborted) == error.name = "AbortError"

\* The test of the catch block of executeWithErrorHandling: the error is
\* the end of an aborted run.
IsAbort(error, aborted) ==
  \/ error.name = "AbortError"
  \/ aborted
  \/ Includes(error.message, <<"exited with code ", "1", "4", "3">>)

\* The test for the retry: message.includes("exit code 1") ||
\* message.includes("exited with code 1").
IsExitCode1(error) ==
  \/ Includes(error.message, <<"exit code ", "1">>)
  \/ Includes(error.message, <<"exited with code ", "1">>)

NoRun ==
  [pc |-> "none", aborted |-> FALSE, attempt |-> 0, delivered |-> 0,
   sessionId |-> NoSession, retried |-> <<>>, result |-> [kind |-> "pending"]]

\* What sendToClaudeCode ends with.
Returns(aborted, sessionId) ==
  [kind |-> "returned", aborted |-> aborted, sessionId |-> sessionId]
Throws == [kind |-> "threw"]

Batch(r, kind) == [run |-> r, kind |-> kind]

TerminalOf_Completion(result) == "completion"

\* The system message a handler submits when sendToClaudeCode has settled.
TerminalOf(result) ==
  IF result.kind = "returned" THEN "completion" ELSE "failure"

NoProgress ==
  [run |-> 0, finished |-> FALSE, finishedBy |-> 0, processed |-> 0]

\* No run, no controller, no session.
RunsIdle ==
  /\ claudeController = NoController
  /\ claudeSessionId = NoSession
  /\ runs = [r \in RunIds |-> NoRun]
  /\ outbox = <<>>
  /\ progress = NoProgress
  /\ cancels = <<>>

-----------------------------------------------------------------------------

NoHook ==
  [pc |-> "idle", eventName |-> "", variables |-> <<>>, workDir |-> NoPath,
   prompt |-> <<>>, chunks |-> 0, settled |-> "pending", rejected |-> FALSE,
   returned |-> "pending", did |-> <<>>]

\* No hook manager.
HooksIdle ==
  /\ hookFiles = {}
  /\ hook = NoHook
  /\ RunsIdle

\* No call of a resolver function.
ResolverIdle ==
  /\ gitEnv = [fn |-> "none"]
  /\ resolved = <<>>

\* No repository: the state of the git variables beside a sender.
GitIdle ==
  /\ gitRepo = [base |-> NoPath, bare |-> FALSE]
  /\ worktrees = <<>>
  /\ dirs = {}
  /\ branches = {}
  /\ gitCalls = <<>>
  /\ ResolverIdle
  /\ HooksIdle

-----------------------------------------------------------------------------

Init ==
  /\ state = InitialState
  /\ inflightEdit = "resolved"
  /\ edits = <<>>
  /\ timers = <<>>
  /\ batch = [b \in BatchIds |-> NoBatch]
  /\ resets = 0
  /\ fresh = NoId
  /\ term = NoTerm
  /\ terminalIssued = FALSE
  /\ budget = MaxMsgs
  /\ pushed = <<>>
  /\ rendered = {}
  /\ sender = "interface"
  /\ skipMessageTypes = GetSkipMessageTypes
  /\ universe = MsgUniverse
  /\ GitIdle

-----------------------------------------------------------------------------
(* sendClaudeMessages and resetProgress: the calls of the command handlers *)

Remove(es, k) == [j \in 1..(Len(es) - 1) |-> IF j < k THEN es[j] ELSE es[j + 1]]

\* The lines written so far, r, and those of a description given to
\* sendMessage or editMessage.
Written(r, d) == r \cup {d.lines[k] : k \in DOMAIN d.lines}

\* clearTimeout(handle) on the timeouts ts still to fire.
ClearTimeout(ts, handle) ==
  IF handle = NoTimer THEN ts ELSE SelectSeq(ts, LAMBDA t : t # handle)

ScheduleEdit_NoClear(ts, handle, b) == Append(ts, b)

\* scheduleEdit on the timeouts ts: the timeout of the handle is cleared and
\* a new one is set, which batch b owns.
ScheduleEdit(ts, handle, b) == Append(ClearTimeout(ts, handle), b)

SendClaudeMessages(messages) ==
  LET b == NumSubmitted + 1 IN
  /\ ~Sync
  /\ b \in BatchIds
  /\ Len(messages) <= budget
  /\ budget' = budget - Len(messages)
  /\ batch' = [batch EXCEPT ![b] =
                 [NoBatch EXCEPT !.msgs = messages, !.st = "queued",
                                 !.run = resets,
                                 !.overlap = PromiseState(b - 1) = "pending"]]
  /\ UNCHANGED <<state, inflightEdit, edits, resets, fresh, term, terminalIssued, pushed, timers, rendered, config, outside>>

ResetProgress(messageId) ==
  /\ ~Sync
  /\ resets < MaxResets
  /\ state' = [InitialState EXCEPT !.messageId = ResetMessageId(messageId),
                                   !.prompt = "prompt"]
  /\ resets' = resets + 1
  /\ fresh' = messageId
  /\ term' = [term EXCEPT !.reset = @ \/ (term.b # 0 /\ ~term.done)]
  /\ terminalIssued' = FALSE
  /\ pushed' = <<>>
  /\ timers' = ClearTimeout(timers, state.editTimer)
  /\ rendered' = {}
  /\ UNCHANGED <<inflightEdit, edits, batch, budget, config, outside>>

-----------------------------------------------------------------------------
(* processMessages *)

\* The then-callback of the queue calls processMessages(messages).
StartBatch(b) ==
  /\ ~Sync
  /\ batch[b].st = "queued"
  /\ CanStart(b)
  /\ batch' = [batch EXCEPT ![b] =
                 IF PromiseState(b - 1) # "rejected"
                 THEN [@ EXCEPT !.st = "running", !.pc = "loop"]
                 ELSE [@ EXCEPT !.st = "skipped"]]
  /\ UNCHANGED <<state, inflightEdit, edits, resets, fresh, term, terminalIssued, budget, pushed, timers, rendered, config, outside>>

NextMessage(b) == [batch EXCEPT ![b] = [@ EXCEPT !.i = @ + 1, !.pc = "loop", !.embed = <<>>]]

EmbedDescription_Always(msg, s) ==
  IF Len(s.lines) > 0 THEN <<BuildProgressDescription(s)>> ELSE <<>>

\* embedData.description: the progress lines are kept in the embed of a
\* completion or failure message.
EmbedDescription(msg, s) ==
  IF IsInternalSystem(msg) /\ Len(s.lines) > 0
  THEN <<BuildProgressDescription(s)>> ELSE <<>>

\* sendSystemMessage up to its first await, from state s with the timeouts
\* ts still to fire; t is the record of the calls made for this message.
SendSystemMessage(b, s, t, ts) ==
  LET msg == CurMsg(b)
      desc == EmbedDescription(msg, s)
  IN IF IsInternalSystem(msg)
     THEN /\ state' = [s EXCEPT !.editTimer = NoTimer, !.pendingEdit = FALSE,
                                !.finished = TRUE]
          /\ timers' = ClearTimeout(ts, s.editTimer)
          /\ batch' = [batch EXCEPT ![b] = [@ EXCEPT !.pc = "inflightWait", !.embed = desc]]
          /\ term' = t
     ELSE /\ state' = s
          /\ timers' = ts
          /\ batch' = [batch EXCEPT ![b] = [@ EXCEPT !.pc = "termSend", !.embed = desc]]
          /\ term' = [t EXCEPT !.calls = Append(@, Call("create", "system", NoId, desc))]

\* One iteration of the for loop on a system message, up to its first await.
StepSystem(b) ==
  LET msg == CurMsg(b)
      s1 == [state EXCEPT !.editTimer = NoTimer]
      ts == ClearTimeout(timers, state.editTimer)
      t == [b |-> b, i |-> batch[b].i, run |-> resets,
            terminal |-> IsInternalSystem(msg),
            pend |-> state.editTimer # NoTimer /\ ~state.finished,
            fresh |-> fresh, calls |-> <<>>, done |-> FALSE, reset |-> FALSE]
  IN /\ Running(b) /\ batch[b].pc = "loop"
     /\ batch[b].i <= Len(batch[b].msgs)
     /\ msg.type = "system"
     /\ ~Skipped(msg, skipMessageTypes)
     /\ IF ForcedFlushNeeded(s1)
        THEN /\ state' = s1
             /\ timers' = ts
             /\ IF FlushEditReturnsEarly(s1)
                THEN /\ batch' = [batch EXCEPT ![b] = [@ EXCEPT !.pc = "flushed"]]
                     /\ term' = t
                     /\ rendered' = rendered
                ELSE /\ batch' = [batch EXCEPT ![b] = [@ EXCEPT !.pc = "flush"]]
                     /\ term' = [t EXCEPT !.calls =
                                   <<Call("edit", "progress", s1.messageId,
                                          <<BuildProgressDescription(s1)>>)>>]
                     /\ rendered' = Written(rendered, BuildProgressDescription(s1))
        ELSE SendSystemMessage(b, s1, t, ts) /\ rendered' = rendered
     /\ fresh' = NoId
     /\ UNCHANGED <<inflightEdit, edits, resets, terminalIssued, budget, pushed, config, outside>>

\* One iteration of the for loop on a message that is not a system message
\* (or is skipped), up to its await of sendMessage.
StepProgress(b) ==
  LET msg == CurMsg(b)
      len == MessageToSummaryLine(msg)
      line == [b |-> b, i |-> batch[b].i, len |-> len]
      s1 == IF msg.type = "text" /\ msg.n > 0
            THEN [state EXCEPT !.fullTextMessages = Append(@, msg.n)]
            ELSE state
      s2 == TrimLines([s1 EXCEPT !.lines = Push(@, line)])
  IN /\ Running(b) /\ batch[b].pc = "loop"
     /\ batch[b].i <= Len(batch[b].msgs)
     /\ msg.type # "system" \/ Skipped(msg, skipMessageTypes)
     /\ IF Skipped(msg, skipMessageTypes)
        THEN /\ state' = state /\ batch' = NextMessage(b) /\ pushed' = pushed
             /\ timers' = timers /\ rendered' = rendered
        ELSE IF len = 0
        THEN /\ state' = s1 /\ batch' = NextMessage(b) /\ pushed' = pushed
             /\ timers' = timers /\ rendered' = rendered
        ELSE IF s2.messageId = NoId
        THEN /\ state' = s2
             /\ batch' = [batch EXCEPT ![b] = [@ EXCEPT !.pc = "create"]]
             /\ pushed' = Append(pushed, line)
             /\ timers' = timers
             /\ rendered' = Written(rendered, BuildProgressDescription(s2))
        ELSE \* scheduleEdit
             /\ state' = [s2 EXCEPT !.pendingEdit = TRUE, !.editTimer = b]
             /\ timers' = ScheduleEdit(timers, s2.editTimer, b)
             /\ rendered' = rendered
             /\ batch' = NextMessage(b)
             /\ pushed' = Append(pushed, line)
     /\ fresh' = NoId
     /\ UNCHANGED <<inflightEdit, edits, resets, term, terminalIssued, budget, config, outside>>

\* The loop has no message left: processMessages returns.
ProcessMessagesReturn(b) ==
  /\ Running(b) /\ batch[b].pc = "loop"
  /\ batch[b].i > Len(batch[b].msgs)
  /\ batch' = [batch EXCEPT ![b] = [@ EXCEPT !.st = "returned", !.pc = "end"]]
  /\ UNCHANGED <<state, inflightEdit, edits, resets, fresh, term, terminalIssued, budget, pushed, timers, rendered, config, outside>>

\* sender.sendMessage of the progress message settles.
CreateDone(b, r) ==
  /\ MacroTask
  /\ Running(b) /\ batch[b].pc = "create"
  /\ IF r = "throw"
     THEN /\ batch' = [batch EXCEPT ![b] = [@ EXCEPT !.st = "threw", !.threw = "create"]]
          /\ state' = state
     ELSE /\ state' = [state EXCEPT !.messageId =
                         IF r = "id" THEN NewId(b, batch[b].i) ELSE NoId]
          /\ batch' = NextMessage(b)
  /\ fresh' = NoId
  /\ UNCHANGED <<inflightEdit, edits, resets, term, terminalIssued, budget, pushed, timers, rendered, config, outside>>

\* The forced flushEdit had nothing to edit: await of a resolved promise.
FlushSkipped(b) ==
  /\ ~Sync
  /\ Running(b) /\ batch[b].pc = "flushed"
  /\ SendSystemMessage(b, state, term, timers)
  /\ UNCHANGED <<inflightEdit, edits, resets, fresh, terminalIssued, budget, pushed, rendered, config, outside>>

\* The editMessage of the forced flushEdit settles; a failure is swallowed.
FlushDone(b, ok) ==
  /\ MacroTask
  /\ Running(b) /\ batch[b].pc = "flush"
  /\ SendSystemMessage(b, state, SetLastRes(term, IF ok THEN "ok" ELSE "fail"), timers)
  /\ UNCHANGED <<inflightEdit, edits, resets, fresh, terminalIssued, budget, pushed, rendered, config, outside>>

\* await inflightEdit is over: the terminal write is issued.
AfterInflightEdit(b) ==
  /\ ~Sync
  /\ Running(b) /\ batch[b].pc = "inflightWait"
  /\ inflightEdit = "resolved"
  /\ IF state.messageId # NoId
     THEN /\ batch' = [batch EXCEPT ![b] = [@ EXCEPT !.pc = "termEdit"]]
          /\ term' = [term EXCEPT !.calls =
                        Append(@, Call("edit", "terminal", state.messageId, batch[b].embed))]
     ELSE /\ batch' = [batch EXCEPT ![b] = [@ EXCEPT !.pc = "termSend"]]
          /\ term' = [term EXCEPT !.calls =
                        Append(@, Call("create", "terminal", NoId, batch[b].embed))]
  /\ terminalIssued' = (terminalIssued \/ term.run = resets)
  /\ rendered' = IF batch[b].embed = <<>> THEN rendered
                  ELSE Written(rendered, batch[b].embed[1])
  /\ UNCHANGED <<state, inflightEdit, edits, resets, fresh, budget, pushed, timers, config, outside>>

\* The terminal editMessage settles; when it rejects the content is sent as
\* new.
TermEditDone(b, ok) ==
  /\ MacroTask
  /\ Running(b) /\ batch[b].pc = "termEdit"
  /\ IF EditMessageResolves(sender, ok)
     THEN /\ batch' = NextMessage(b)
          /\ term' = [SetLastRes(term, IF ok THEN "ok" ELSE "fail") EXCEPT !.done = TRUE]
     ELSE /\ batch' = [batch EXCEPT ![b] = [@ EXCEPT !.pc = "termSend"]]
          /\ term' = [SetLastRes(term, "fail") EXCEPT !.calls =
                        Append(@, Call("create", "terminal", NoId, batch[b].embed))]
  /\ UNCHANGED <<state, inflightEdit, edits, resets, fresh, terminalIssued, budget, pushed, timers, rendered, config, outside>>

\* The sendMessage of sendSystemMessage settles; a rejection leaves
\* processMessages.
TermSendDone(b, ok) ==
  /\ MacroTask
  /\ Running(b) /\ batch[b].pc = "termSend"
  /\ IF ok
     THEN /\ batch' = NextMessage(b)
          /\ term' = [SetLastRes(term, "ok") EXCEPT !.done = TRUE]
     ELSE /\ batch' = [batch EXCEPT ![b] = [@ EXCEPT !.st = "threw", !.threw = "send"]]
          /\ term' = [SetLastRes(term, "fail") EXCEPT !.done = TRUE]
  /\ UNCHANGED <<state, inflightEdit, edits, resets, fresh, terminalIssued, budget, pushed, timers, rendered, config, outside>>

-----------------------------------------------------------------------------
(* The debounce timer of scheduleEdit *)

Unflag(es) == [k \in DOMAIN es |-> [es[k] EXCEPT !.latest = FALSE]]

\* A timeout that was set and not cleared fires: the callback clears the
\* handle and the flag, inflightEdit = flushEdit().
TimerFire ==
  LET s1 == [state EXCEPT !.editTimer = NoTimer, !.pendingEdit = FALSE] IN
  \E k \in DOMAIN timers :
  /\ MacroTask
  /\ timers' = Remove(timers, k)
  /\ state' = s1
  /\ IF FlushEditReturnsEarly(s1)
     THEN /\ edits' = Unflag(edits)
          /\ inflightEdit' = "resolved"
          /\ rendered' = rendered
     ELSE /\ edits' = Append(Unflag(edits),
                             [target |-> s1.messageId,
                              desc |-> BuildProgressDescription(s1),
                              by |-> timers[k], run |-> resets,
                              latest |-> TRUE])
          /\ inflightEdit' = "pending"
          /\ rendered' = Written(rendered, BuildProgressDescription(s1))
  /\ fresh' = NoId
  /\ UNCHANGED <<batch, resets, term, terminalIssued, budget, pushed, config, outside>>

\* An editMessage started by the timer settles; a failure is swallowed.
EditDone(k) ==
  /\ MacroTask
  /\ k \in DOMAIN edits
  /\ edits' = Remove(edits, k)
  /\ inflightEdit' = IF edits[k].latest THEN "resolved" ELSE inflightEdit
  /\ UNCHANGED <<state, batch, resets, fresh, term, terminalIssued, budget, pushed, timers, rendered, config, outside>>

-----------------------------------------------------------------------------

BatchesUpTo(n) == UNION {[1..k -> universe] : k \in 1..n}

Next ==
  \/ \E messages \in BatchesUpTo(budget) : SendClaudeMessages(messages)
  \/ \E messageId \in {NoId} \cup ResetIds : ResetProgress(messageId)
  \/ \E b \in BatchIds : StartBatch(b)
  \/ \E b \in BatchIds : StepSystem(b)
  \/ \E b \in BatchIds : StepProgress(b)
  \/ \E b \in BatchIds : ProcessMessagesReturn(b)
  \/ \E b \in BatchIds, r \in {"id", "undefined", "throw"} : CreateDone(b, r)
  \/ \E b \in BatchIds : FlushSkipped(b)
  \/ \E b \in BatchIds, ok \in BOOLEAN : FlushDone(b, ok)
  \/ \E b \in BatchIds : AfterInflightEdit(b)
  \/ \E b \in BatchIds, ok \in BOOLEAN : TermEditDone(b, ok)
  \/ \E b \in BatchIds, ok \in BOOLEAN : TermSendDone(b, ok)
  \/ TimerFire
  \/ \E k \in DOMAIN edits : EditDone(k)

Spec == Init /\ [][Next]_vars

\* The steps the event loop takes by itself: the then-callbacks and
\* continuations of processMessages, the timeouts, and the answers of the
\* platform to the calls in flight.
Scheduled ==
  \/ \E b \in BatchIds : StartBatch(b) \/ StepSystem(b) \/ StepProgress(b)
  \/ \E b \in BatchIds : ProcessMessagesReturn(b) \/ FlushSkipped(b)
  \/ \E b \in BatchIds : AfterInflightEdit(b)
  \/ \E b \in BatchIds, r \in {"id", "undefined", "throw"} : CreateDone(b, r)
  \/ \E b \in BatchIds, ok \in BOOLEAN :
       FlushDone(b, ok) \/ TermEditDone(b, ok) \/ TermSendDone(b, ok)
  \/ TimerFire
  \/ \E k \in DOMAIN edits : EditDone(k)

\* The sender in an event loop that runs what is ready and on a platform
\* that answers every call.
SpecLive == Spec /\ WF_vars(Scheduled)

\* The same sender with one message more to submit.
InitRace ==
  /\ state = InitialState
  /\ inflightEdit = "resolved"
  /\ edits = <<>>
  /\ timers = <<>>
  /\ batch = [b \in BatchIds |-> NoBatch]
  /\ resets = 0
  /\ fresh = NoId
  /\ term = NoTerm
  /\ terminalIssued = FALSE
  /\ budget = RaceMsgs
  /\ pushed = <<>>
  /\ rendered = {}
  /\ sender = "interface"
  /\ skipMessageTypes = GetSkipMessageTypes
  /\ universe = MsgUniverse
  /\ GitIdle

SpecRace == InitRace /\ [][Next]_vars

\* createClaudeSender(snd) in a process whose skip set is skip, fed with
\* at most n messages of u.
InitSender(n, snd, skip, u) ==
  /\ state = InitialState
  /\ inflightEdit = "resolved"
  /\ edits = <<>>
  /\ timers = <<>>
  /\ batch = [b \in BatchIds |-> NoBatch]
  /\ resets = 0
  /\ fresh = NoId
  /\ term = NoTerm
  /\ terminalIssued = FALSE
  /\ budget = n
  /\ pushed = <<>>
  /\ rendered = {}
  /\ sender = snd
  /\ skipMessageTypes = skip
  /\ universe = u

InitWith(n, snd, skip, u) == InitSender(n, snd, skip, u) /\ GitIdle

\* The sender fed with tool calls that have long summary lines.
InitTrim == InitWith(MaxMsgs, "interface", GetSkipMessageTypes, TrimUniverse)

SpecTrim == InitTrim /\ [][Next]_vars

\* The sender the bot creates: createClaudeSender(createDiscordSenderAdapter(bot)).
InitAdapter == InitWith(MaxMsgs, "adapter", GetSkipMessageTypes, MsgUniverse)

SpecAdapter == InitAdapter /\ [][Next]_vars

\* The sender in a process with a skip set, fed with system messages of
\* both kinds.
InitSystem ==
  \E skip \in SkipSets : InitWith(MaxMsgs, "interface", skip, SystemUniverse)

SpecSystem == InitSystem /\ [][Next]_vars

-----------------------------------------------------------------------------
(* The worktree handlers.  Each runs a fixed sequence of git commands; a    *)
(* call is one step.                                                       *)

\* The worktrees whose listing entry is for the branch.
EntriesOf(repo, wts, branch) ==
  {wts[k].path : k \in {j \in DOMAIN wts : wts[j].branch = branch}} \cup
  (IF ~repo.bare /\ branch = MainBranch THEN {repo.base} ELSE {})

GitCall(op, branch, kind, fullPath, cmds) ==
  [op |-> op, branch |-> branch, kind |-> kind, fullPath |-> fullPath,
   isExisting |-> kind = "existing",
   error |-> kind \in {"dirExists", "addFailed", "notFound", "removeFailed"},
   cmds |-> cmds,
   entries |-> EntriesOf(gitRepo, worktrees, branch)]

\* undefined, for the ref of createWorktree
NoRef == <<>>

Refs == {NoRef, <<"v1">>}

\* ref || "HEAD"
StartPoint(ref) == IF ref = NoRef THEN <<"HEAD">> ELSE ref

\* How `git show-ref --verify --quiet refs/heads/<branch>` goes: it runs,
\* git cannot be started, or git does not find the repository.
ShowRefHealth == {"runs", "throws", "fatal"}

\* What the command gives executeGitCommand: with --quiet it prints nothing
\* and exits with 0 when the ref exists, with 1 when it does not.
ShowRef(health, exists) ==
  IF health = "throws" THEN Thrown(<<"No such file or directory">>)
  ELSE IF health = "fatal" THEN Exited(128, <<>>, <<"fatal: not a git repository">>)
  ELSE Exited(IF exists THEN 0 ELSE 1, <<>>, <<>>)

\* git worktree add path [-b] branch [startPoint]; check: how the show-ref
\* before it went.
AddCmd(path, create, ref, check, ok) ==
  [cmd |-> "add", path |-> path, ok |-> ok, create |-> create,
   startPoint |-> IF create THEN StartPoint(ref) ELSE NoRef,
   ref |-> ref, check |-> check]

\* createWorktree(workDir, branch, ref); check: how the show-ref goes;
\* mkdirOk: Deno.mkdir does not throw.
CreateWorktree(branch, ref, check, mkdirOk) ==
  LET baseWorkDir == ResolveBaseRepoDir(gitRepo)
      existingWorktree ==
        FindWorktreeForBranch(WorktreeListOutput(gitRepo, worktrees), branch)
      isBare == IsBareRepository(gitRepo)
      worktreeDir == WorktreeDir(baseWorkDir, isBare, branch)
      branchCheckResult == ExecuteGitCommand(ShowRef(check, branch \in branches))
      branchExists == ~IsCheckError(branchCheckResult)
      made == MkdirRecursive(gitRepo, dirs, Dirname(worktreeDir))
      added == WorktreeAddSucceeds(gitRepo, worktrees, made, branches, worktreeDir,
                                   branch, ~branchExists)
      registered == RegisteredPath(worktreeDir)
      Return(kind, fullPath, cmds) ==
        gitCalls' = Append(gitCalls, GitCall("createWorktree", branch, kind, fullPath, cmds))
  IN /\ Len(gitCalls) < MaxCalls
     /\ IF existingWorktree # NoPath
        THEN /\ Return("existing", existingWorktree, <<>>)
             /\ UNCHANGED <<worktrees, dirs, branches>>
        ELSE IF StatSucceeds(gitRepo, dirs, worktreeDir)
        THEN /\ Return("dirExists", worktreeDir, <<>>)
             /\ UNCHANGED <<worktrees, dirs, branches>>
        ELSE IF ~mkdirOk
        THEN /\ made # dirs
             /\ Return("threw", NoPath, <<>>)
             /\ UNCHANGED <<worktrees, dirs, branches>>
        ELSE IF added
        THEN /\ Return("added", worktreeDir,
                       <<AddCmd(Parts0(worktreeDir), ~branchExists, ref, check, TRUE)>>)
             /\ worktrees' = Append(worktrees,
                                    [path |-> registered, branch |-> branch, locked |-> FALSE])
             /\ dirs' = made \cup {registered}
             /\ branches' = branches \cup {branch}
        ELSE /\ Return("addFailed", worktreeDir,
                       <<AddCmd(Parts0(worktreeDir), ~branchExists, ref, check, FALSE)>>)
             /\ dirs' = made
             /\ UNCHANGED <<worktrees, branches>>
     /\ UNCHANGED <<gitRepo, notGit>>

\* removeWorktree(workDir, branch)
RemoveWorktree(branch) ==
  LET worktreePathToRemove ==
        FindWorktreeForBranch(WorktreeListOutput(gitRepo, worktrees), branch)
      removed == WorktreeRemoveSucceeds(worktrees, worktreePathToRemove)
      Return(kind, fullPath, cmds) ==
        gitCalls' = Append(gitCalls, GitCall("removeWorktree", branch, kind, fullPath, cmds))
  IN /\ Len(gitCalls) < MaxCalls
     /\ IF worktreePathToRemove = NoPath
        THEN /\ Return("notFound", NoPath, <<>>)
             /\ UNCHANGED <<worktrees, dirs>>
        ELSE IF removed
        THEN /\ Return("removed", worktreePathToRemove,
                       <<GitCmd("remove", worktreePathToRemove, TRUE)>>)
             /\ worktrees' = Without(worktrees, Normalize(worktreePathToRemove))
             /\ dirs' = dirs \ {Normalize(worktreePathToRemove)}
        ELSE /\ Return("removeFailed", worktreePathToRemove,
                       <<GitCmd("remove", worktreePathToRemove, FALSE)>>)
             /\ UNCHANGED <<worktrees, dirs>>
     /\ UNCHANGED <<gitRepo, branches, notGit>>

NextGit ==
  \/ \E branch \in Branches, ref \in Refs, check \in ShowRefHealth, mkdirOk \in BOOLEAN :
       CreateWorktree(branch, ref, check, mkdirOk)
  \/ \E branch \in Branches : RemoveWorktree(branch)

\* A worktree for the branch where createWorktree puts it, as git lists it.
Linked(repo, branch, locked) ==
  [path |-> RegisteredPath(WorktreeDir(repo.base, repo.bare, branch)),
   branch |-> branch, locked |-> locked]

\* The worktrees a repository may have when the bot starts.
InitialWorktrees(repo) ==
  { <<>>, <<Linked(repo, <<"feat">>, FALSE)>>, <<Linked(repo, OtherBranch, TRUE)>>,
    <<Linked(repo, OtherBranch, TRUE), Linked(repo, <<"feat">>, FALSE)>> }

\* A repository, normal or bare, with some worktrees, possibly a branch
\* feat without a worktree and a directory where its worktree would go.
InitGit ==
  /\ InitSender(0, "interface", GetSkipMessageTypes, {})
  /\ gitRepo \in [base : BaseDirs, bare : BOOLEAN]
  /\ worktrees \in InitialWorktrees(gitRepo)
  /\ \E stray \in SUBSET {RegisteredPath(WorktreeDir(gitRepo.base, gitRepo.bare, <<"feat">>))} :
       dirs = {worktrees[k].path : k \in DOMAIN worktrees} \cup stray
  /\ \E refs \in SUBSET {<<"feat">>} :
       branches = {MainBranch} \cup {worktrees[k].branch : k \in DOMAIN worktrees} \cup refs
  /\ gitCalls = <<>>
  /\ ResolverIdle
  /\ HooksIdle

SpecGit == InitGit /\ [][NextGit]_vars

-----------------------------------------------------------------------------
(* The resolver functions.  A call is one step; its result is recorded.    *)

Resolved(fn, arg, result) == [fn |-> fn, arg |-> arg, result |-> result]

\* findWorktreeForBranch(gitEnv.dir, branch)
FindWorktreeForBranchCall(branch) ==
  /\ gitEnv.fn = "findWorktreeForBranch"
  /\ Len(resolved) < MaxCalls
  /\ resolved' = Append(resolved,
                        Resolved("findWorktreeForBranch", branch,
                                 FindWorktreeForBranchIn(
                                   ListText(gitEnv.dir, gitEnv.worktrees), branch)))
  /\ UNCHANGED <<gitEnv, notResolver>>

\* findWorktreeForBareRepo(gitEnv.dir)
FindWorktreeForBareRepoCall ==
  /\ gitEnv.fn = "findWorktreeForBareRepo"
  /\ Len(resolved) < MaxCalls
  /\ resolved' = Append(resolved,
                        Resolved("findWorktreeForBareRepo", gitEnv.dir,
                                 FindWorktreeForBareRepo(
                                   gitEnv.dir,
                                   GetWorktreeList([base |-> gitEnv.dir, bare |-> TRUE],
                                                   gitEnv.worktrees),
                                   Disk(gitEnv.dir, gitEnv.worktrees),
                                   Marked(gitEnv.worktrees))))
  /\ UNCHANGED <<gitEnv, notResolver>>

\* What findWorktreeForBranch may find: a listing, as text.
FindBranchEnvs ==
  {[fn |-> "findWorktreeForBranch", dir |-> RepoDirText, worktrees |-> l] :
     l \in Listings}

\* What findWorktreeForBareRepo may find: a bare repository and its worktrees.
FindBareEnvs ==
  UNION {{[fn |-> "findWorktreeForBareRepo", dir |-> d, worktrees |-> l] :
            l \in DistinctSeqs(BareWorktrees(d), MaxListed)} : d \in BaseDirs}

\* isBareRepository(repoDir)
IsBareRepositoryCall ==
  /\ gitEnv.fn = "isBareRepository"
  /\ Len(resolved) < MaxCalls
  /\ resolved' = Append(resolved,
                        Resolved("isBareRepository", gitEnv.override,
                                 IsBareRepositoryIn(gitEnv.override, gitEnv.tool)))
  /\ UNCHANGED <<gitEnv, notResolver>>

\* What isBareRepository may find: GIT_BARE_REPO and the behaviour of git.
IsBareEnvs ==
  {[fn |-> "isBareRepository", override |-> o, tool |-> t] :
     o \in BareOverrides, t \in BareQueries}

\* resolveBaseRepoDir(workDir)
ResolveBaseRepoDirCall ==
  /\ gitEnv.fn = "resolveBaseRepoDir"
  /\ Len(resolved) < MaxCalls
  /\ resolved' = Append(resolved,
                        Resolved("resolveBaseRepoDir", gitEnv.workDir,
                                 ResolveBaseRepoDirIn(gitEnv.workDir, gitEnv.repo,
                                                      gitEnv.health)))
  /\ UNCHANGED <<gitEnv, notResolver>>

\* A linked worktree of the repository at MainRepoDir.
LinkedWorktreeDir == <<Dir("srv"), Dir("wt")>>

\* What a directory is for the repository at MainRepoDir, bare or normal.
KindOf(bare, dir) ==
  IF dir = MainRepoDir THEN (IF bare THEN "bare" ELSE "plain")
  ELSE IF dir = LinkedWorktreeDir THEN (IF bare THEN "bareWorktree" ELSE "worktree")
  ELSE IF ~bare /\ dir = MainRepoDir \o <<Dir(".git")>> THEN "gitDir"
  ELSE "none"

\* resolveBaseRepoDir(dir) for the main directory of the repository, for
\* its linked worktree, or for what an earlier call returned.
ResolveBaseRepoDirOfCall(dir) ==
  /\ gitEnv.fn = "repository"
  /\ Len(resolved) < MaxCalls
  /\ dir \in {MainRepoDir, LinkedWorktreeDir} \cup
              {resolved[k].result : k \in DOMAIN resolved}
  /\ resolved' = Append(resolved,
                        Resolved("resolveBaseRepoDir of repository", dir,
                                 ResolveBaseRepoDirIn(dir, KindOf(gitEnv.bare, dir),
                                                      gitEnv.health)))
  /\ UNCHANGED <<gitEnv, notResolver>>

\* The directories a call for the repository may be given.
RepositoryPlaces ==
  {MainRepoDir, LinkedWorktreeDir, MainRepoDir \o <<Dir(".git")>>}

\* A repository at MainRepoDir with a linked worktree.
RepositoryEnvs ==
  {[fn |-> "repository", bare |-> b, health |-> h] : b \in BOOLEAN, h \in ToolHealth}

\* What resolveBaseRepoDir may find: the directory, what it is, and git.
ResolveBaseEnvs ==
  {[fn |-> "resolveBaseRepoDir", workDir |-> d, repo |-> r, health |-> h] :
     d \in WorkDirs, r \in RepoKinds, h \in ToolHealth}

\* executeGitCommand(workDir, command)
ExecuteGitCommandCall(outcome) ==
  /\ gitEnv.fn = "executeGitCommand"
  /\ Len(resolved) < MaxCalls
  /\ resolved' = Append(resolved,
                        Resolved("executeGitCommand", outcome,
                                 ExecuteGitCommand(outcome)))
  /\ UNCHANGED <<gitEnv, notResolver>>

\* What the resolver functions may find.
ResolverEnv(e) ==
  \/ e \in FindBranchEnvs
  \/ e \in FindBareEnvs
  \/ e \in IsBareEnvs
  \/ e \in ResolveBaseEnvs
  \/ e \in RepositoryEnvs
  \/ e = [fn |-> "executeGitCommand"]

NextResolver ==
  \/ \E branch \in QueriedBranches : FindWorktreeForBranchCall(branch)
  \/ FindWorktreeForBareRepoCall
  \/ IsBareRepositoryCall
  \/ ResolveBaseRepoDirCall
  \/ \E dir \in RepositoryPlaces : ResolveBaseRepoDirOfCall(dir)
  \/ \E outcome \in GitOutcomes : ExecuteGitCommandCall(outcome)

InitResolver ==
  /\ InitSender(0, "interface", GetSkipMessageTypes, {})
  /\ gitRepo = [base |-> NoPath, bare |-> FALSE]
  /\ worktrees = <<>>
  /\ dirs = {}
  /\ branches = {}
  /\ gitCalls = <<>>
  /\ ResolverEnv(gitEnv)
  /\ resolved = <<>>
  /\ HooksIdle

SpecResolver == InitResolver /\ [][NextResolver]_vars

-----------------------------------------------------------------------------
(* HookManager.executeHook.  Its awaits are the steps; what it does to its *)
(* dependencies is recorded in hook.did.                                   *)

Did(op, what) == [op |-> op, what |-> what]

\* executeHook(eventName, variables, workDirOverride) up to the read of the
\* hook file.
ExecuteHook(eventName, variables, workDirOverride) ==
  LET effectiveWorkDir ==
        IF workDirOverride # NoPath THEN workDirOverride ELSE HookWorkDir
      hookPath == HookPath(HooksDir, effectiveWorkDir, eventName)
  IN /\ hook.pc = "idle"
     /\ hook' = [hook EXCEPT !.pc = "read", !.eventName = eventName,
                             !.variables = variables, !.workDir = effectiveWorkDir,
                             !.did = Append(@, Did("readTextFile", hookPath))]
     /\ UNCHANGED <<hookFiles, notHooks>>

\* The read settles: without a file executeHook returns false; otherwise the
\* template is applied, progress is reset and the run is started.
ReadHookFileDone ==
  LET content == ReadHookFile(hookFiles, hook.did[Len(hook.did)].what)
      prompt == ApplyTemplate(content, hook.variables)
  IN /\ hook.pc = "read"
     /\ IF content = Null
        THEN hook' = [hook EXCEPT !.pc = "done", !.returned = "false"]
        ELSE hook' = [hook EXCEPT !.pc = "run", !.prompt = prompt,
                                  !.did = @ \o <<Did("resetProgress", hook.eventName),
                                                 Did("sendToClaudeCode",
                                                     <<hook.workDir, prompt>>)>>]
     /\ UNCHANGED <<hookFiles, notHooks>>

\* The run streams messages: the callback hands them to sendClaudeMessages.
OnStreamJson ==
  /\ hook.pc = "run"
  /\ hook.chunks < MaxChunks
  /\ hook' = [hook EXCEPT !.chunks = @ + 1,
                          !.did = Append(@, Did("sendClaudeMessages", "stream"))]
  /\ UNCHANGED <<hookFiles, notHooks>>

HookTerminal_Completion(ok) == "completion"

\* The subtype of the system message executeHook sends when sendToClaudeCode
\* has settled.
HookTerminal(ok) == IF ok THEN "completion" ELSE "failure"

\* sendToClaudeCode settles: the completion message is sent, or the failure
\* message when it rejected.
RunSettles(ok) ==
  /\ hook.pc = "run"
  /\ hook' = [hook EXCEPT !.pc = HookTerminal(ok),
                          !.settled = IF ok THEN "returned" ELSE "threw",
                          !.did = Append(@, Did("sendClaudeMessages", HookTerminal(ok)))]
  /\ UNCHANGED <<hookFiles, notHooks>>

\* The sendClaudeMessages of the completion message settles; when it
\* rejects the catch block sends the failure message.
CompletionSent(ok) ==
  /\ hook.pc = "completion"
  /\ IF ok
     THEN hook' = [hook EXCEPT !.pc = "done", !.returned = "true"]
     ELSE hook' = [hook EXCEPT !.pc = "failure", !.rejected = TRUE,
                               !.did = Append(@, Did("sendClaudeMessages", "failure"))]
  /\ UNCHANGED <<hookFiles, notHooks>>

\* The sendClaudeMessages of the failure message settles; its rejection is
\* the rejection of executeHook.
FailureSent(ok) ==
  /\ hook.pc = "failure"
  /\ hook' = [hook EXCEPT !.pc = "done", !.rejected = @ \/ ~ok,
                          !.returned = IF ok THEN "false" ELSE "threw"]
  /\ UNCHANGED <<hookFiles, notHooks>>

NextHooks ==
  \/ \E eventName \in EventNames, variables \in VariableMaps,
        workDirOverride \in {NoPath, WorkDirOverride} :
        ExecuteHook(eventName, variables, workDirOverride)
  \/ ReadHookFileDone
  \/ OnStreamJson
  \/ \E ok \in BOOLEAN : RunSettles(ok)
  \/ \E ok \in BOOLEAN : CompletionSent(ok)
  \/ \E ok \in BOOLEAN : FailureSent(ok)

\* Hook files for the event worktree, all with the same content, at some
\* of the places; none for the other event.
InitHooks ==
  /\ InitSender(0, "interface", GetSkipMessageTypes, {})
  /\ gitRepo = [base |-> NoPath, bare |-> FALSE]
  /\ worktrees = <<>>
  /\ dirs = {}
  /\ branches = {}
  /\ gitCalls = <<>>
  /\ ResolverIdle
  /\ \E content \in HookContents, places \in SUBSET HookPlaces("worktree") :
       hookFiles = {[path |-> p, content |-> content] : p \in places}
  /\ hook = NoHook
  /\ RunsIdle

SpecHooks == InitHooks /\ [][NextHooks]_vars

-----------------------------------------------------------------------------
(* The command handlers and sendToClaudeCode, step by step *)

NumStarted == Cardinality({r \in RunIds : runs[r].pc # "none"})

\* controller.abort() on the stored controller, if there is one
Abort(rs, c) == IF c = NoController THEN rs ELSE [rs EXCEPT ![c].aborted = TRUE]

\* A handler is called: it aborts the stored controller, stores a new one and
\* awaits ctx.deferReply().  The four handlers differ in the arguments they
\* give to sendToClaudeCode only.
StartRun(r, handler) ==
  /\ r = NumStarted + 1
  /\ r \in RunIds
  /\ runs' = [Abort(runs, claudeController) EXCEPT ![r].pc = "defer"]
  /\ claudeController' = r
  /\ UNCHANGED <<claudeSessionId, outbox, progress, cancels, notRuns>>

\* deferAndInitProgress comes to resetProgress; the handler then calls
\* sendToClaudeCode, which starts the first attempt.
InitProgress(r) ==
  /\ runs[r].pc = "defer"
  /\ progress' = [progress EXCEPT !.run = r, !.finished = FALSE, !.finishedBy = 0]
  /\ runs' = [runs EXCEPT ![r].pc = "query", ![r].attempt = 1]
  /\ UNCHANGED <<claudeController, claudeSessionId, outbox, cancels, notRuns>>

\* sendToClaudeCode settles and the handler goes on: it stores the session
\* id of a result, clears the stored controller and submits the terminal
\* message.
Settle(r, rs, result) ==
  /\ runs' = [rs EXCEPT ![r].pc = "done", ![r].result = result]
  /\ claudeSessionId' =
       IF result.kind = "returned" THEN result.sessionId ELSE claudeSessionId
  /\ claudeController' = NoController
  /\ outbox' = Append(outbox, Batch(r, TerminalOf(result)))

\* The iterator yields a message: execute leaves the loop if the controller
\* is aborted; otherwise the message goes to onStreamJson, which submits what
\* convertToClaudeMessages makes of it, and its session id is kept.
QueryYields(r, converted, hasSession) ==
  /\ runs[r].pc = "query"
  /\ IF runs[r].aborted
     THEN Settle(r, runs, Returns(TRUE, runs[r].sessionId))
     ELSE /\ runs[r].delivered < MaxEvents
          /\ runs' = [runs EXCEPT ![r].delivered = @ + 1,
                                  ![r].sessionId = IF hasSession THEN r ELSE @]
          /\ outbox' = IF converted THEN Append(outbox, Batch(r, "stream")) ELSE outbox
          /\ UNCHANGED <<claudeController, claudeSessionId>>
  /\ UNCHANGED <<progress, cancels, notRuns>>

\* The iterator is exhausted: execute returns its result.
QueryEnds(r) ==
  /\ runs[r].pc = "query"
  /\ Settle(r, runs, Returns(runs[r].aborted, runs[r].sessionId))
  /\ UNCHANGED <<progress, cancels, notRuns>>

\* The iterator throws: executeWithErrorHandling returns an aborted result or
\* rethrows; sendToClaudeCode retries with the fallback model after the first
\* attempt if the error passes the test for exit code 1.
QueryThrows(r, error) ==
  /\ runs[r].pc = "query"
  /\ error.name = "AbortError" => runs[r].aborted
  /\ IF IsAbort(error, runs[r].aborted)
     THEN Settle(r, runs, Returns(TRUE, NoSession))
     ELSE IF runs[r].attempt = 1 /\ IsExitCode1(error)
     THEN /\ runs' = [runs EXCEPT ![r].attempt = 2, ![r].sessionId = NoSession,
                                  ![r].retried = <<error>>]
          /\ UNCHANGED <<claudeController, claudeSessionId, outbox>>
     ELSE Settle(r, runs, Throws)
  /\ UNCHANGED <<progress, cancels, notRuns>>

Cancel(found, result, started) ==
  [found |-> found, result |-> result, started |-> started]

\* onClaudeCancel
OnClaudeCancel ==
  /\ Len(cancels) < MaxCancels
  /\ IF claudeController = NoController
     THEN /\ cancels' = Append(cancels, Cancel(NoController, FALSE, NumStarted))
          /\ UNCHANGED <<claudeController, claudeSessionId, runs>>
     ELSE /\ runs' = Abort(runs, claudeController)
          /\ claudeController' = NoController
          /\ claudeSessionId' = NoSession
          /\ cancels' = Append(cancels, Cancel(claudeController, TRUE, NumStarted))
  /\ UNCHANGED <<outbox, progress, notRuns>>

\* The sender processes the next batch of its queue: a completion or
\* failure message finishes the ProgressState there is and is written over
\* its message.
ProcessBatch ==
  LET m == outbox[progress.processed + 1] IN
  /\ progress.processed < Len(outbox)
  /\ progress' = IF m.kind = "stream" THEN [progress EXCEPT !.processed = @ + 1]
                 ELSE [progress EXCEPT !.processed = @ + 1, !.finished = TRUE,
                                       !.finishedBy = m.run]
  /\ UNCHANGED <<claudeController, claudeSessionId, runs, outbox, cancels, notRuns>>

NextRuns ==
  \/ \E r \in RunIds, handler \in Handlers : StartRun(r, handler)
  \/ \E r \in RunIds : InitProgress(r)
  \/ \E r \in RunIds, converted, hasSession \in BOOLEAN :
       QueryYields(r, converted, hasSession)
  \/ \E r \in RunIds : QueryEnds(r)
  \/ \E r \in RunIds, error \in Errors : QueryThrows(r, error)
  \/ OnClaudeCancel
  \/ ProcessBatch

InitRuns ==
  /\ InitSender(0, "interface", GetSkipMessageTypes, {})
  /\ gitRepo = [base |-> NoPath, bare |-> FALSE]
  /\ worktrees = <<>>
  /\ dirs = {}
  /\ branches = {}
  /\ gitCalls = <<>>
  /\ ResolverIdle
  /\ hookFiles = {}
  /\ hook = NoHook
  /\ RunsIdle

SpecRuns == InitRuns /\ [][NextRuns]_vars

-----------------------------------------------------------------------------
(* The serializer: C1, C2, C8, C10 *)

Started(b) == batch[b].st \in {"running", "returned", "threw"}
Ended(b) == batch[b].st \in {"returned", "threw"}

\* C1: batches are processed one at a time in call order: the processing of
\* batch k+1 never starts before the processing of batch k has ended, and no
\* two executions of processMessages are active at the same time.
C1_OneAtATimeInOrder ==
  /\ Cardinality({b \in BatchIds : Running(b)}) <= 1
  /\ \A b \in BatchIds : (b > 1 /\ Started(b)) => Ended(b - 1)

\* A batch submitted while the one before it was suspended is being processed.
C1_Witness ==
  \E b \in BatchIds : batch[b].overlap /\ Running(b) /\ batch[b].pc = "create"

\* Message j of batch b has appended its summary line.
Contributed(b, j) ==
  LET msg == batch[b].msgs[j] IN
  /\ Started(b)
  /\ j < batch[b].i \/ (j = batch[b].i /\ batch[b].pc = "create")
  /\ msg.type # "system"
  /\ ~Skipped(msg, skipMessageTypes)
  /\ MessageToSummaryLine(msg) > 0

RECURSIVE ContributionUpTo(_, _)
ContributionUpTo(b, j) ==
  IF j = 0 THEN <<>>
  ELSE ContributionUpTo(b, j - 1) \o
       (IF Contributed(b, j)
        THEN <<[b |-> b, i |-> j, len |-> MessageToSummaryLine(batch[b].msgs[j])]>>
        ELSE <<>>)

RECURSIVE ContributionsUpTo(_)
ContributionsUpTo(k) ==
  IF k = 0 THEN <<>>
  ELSE ContributionsUpTo(k - 1) \o ContributionUpTo(k, Len(batch[k].msgs))

NoResetSinceSubmit ==
  \A b \in BatchIds : batch[b].st # "none" => batch[b].run = resets

C8_QueueSurvivesThrow ==
  \A b \in BatchIds :
    /\ batch[b].st = "threw" => PromiseState(b) = "resolved"
    /\ batch[b].st # "skipped"
    /\ (b > 1 /\ batch[b - 1].st = "threw" /\ batch[b].st = "queued") => CanStart(b)

\* A batch submitted while a batch that later threw was pending has been
\* processed to its end.
C8_Witness ==
  \E b \in BatchIds :
    /\ b > 1 /\ batch[b - 1].st = "threw" /\ batch[b].overlap
    /\ batch[b].st = "returned" /\ batch[b].i > Len(batch[b].msgs)

AwaitedCallInFlight(b) ==
  Running(b) /\ batch[b].pc \in {"create", "flush", "termEdit", "termSend"}

\* C10 as stated: when the promise of a batch has resolved, every platform
\* call the batch triggered has completed, the edits it scheduled included.
C10_ResolvedAfterScheduledEdit ==
  \A b \in BatchIds :
    (batch[b].st # "none" /\ PromiseState(b) = "resolved") =>
      /\ ~AwaitedCallInFlight(b)
      /\ state.editTimer # b
      /\ \A k \in DOMAIN edits : edits[k].by # b

\* C10 as amended: when the promise of a batch has resolved, processMessages
\* has ended for the batch (all its messages handled, or a platform call
\* threw) and no platform call it awaits (create, forced flush, terminal
\* write) is in flight.
C10_ResolvedAfterProcessing ==
  \A b \in BatchIds :
    (batch[b].st # "none" /\ PromiseState(b) = "resolved") =>
      /\ ~AwaitedCallInFlight(b)
      /\ batch[b].i > Len(batch[b].msgs) \/ batch[b].threw # "none"

\* The promise of a batch has resolved while the edit it scheduled is pending.
C10_Witness ==
  \E b \in BatchIds :
    /\ PromiseState(b) = "resolved" /\ batch[b].st = "returned"
    /\ state.editTimer = b

-----------------------------------------------------------------------------
(* Finalization: C3, C4, C5, C6 *)

\* C3: once the terminal write of a run has been issued, no progress edit of
\* that run is in flight: those the timer started earlier have completed and
\* none is started afterwards.
C3_TerminalWriteLast ==
  terminalIssued =>
    /\ \A k \in DOMAIN edits : edits[k].run # resets
    /\ \A b \in BatchIds : ~(Running(b) /\ batch[b].pc = "flush")

\* The handling of a completion or failure message that began while a
\* debounce timer was pending in an unfinished run, with no resetProgress
\* since.
TimerPendingCase == term.b # 0 /\ term.terminal /\ term.pend /\ ~term.reset

EditCalls(calls) == {k \in DOMAIN calls : calls[k].op = "edit"}

\* C4 as stated: such a message results in exactly one edit call.
C4_ExactlyOneEdit ==
  (TimerPendingCase /\ term.done) => Cardinality(EditCalls(term.calls)) = 1

\* C4 as amended: such a message results in exactly two edit calls on the
\* live message, the forced flush of the progress rendering and then the
\* terminal edit, both with all the lines held when the message arrived; the
\* cancelled timer does not fire and a create call is made only when the
\* terminal edit failed.
C4_FlushThenTerminalEdit ==
  TimerPendingCase =>
    LET c == term.calls IN
    /\ Len(c) >= 1 /\ Len(c) <= 3
    /\ c[1].op = "edit" /\ c[1].kind = "progress" /\ c[1].target # NoId
    /\ c[1].desc # <<>> /\ c[1].desc[1].lines # <<>>
    /\ ~term.done =>
         /\ state.editTimer = NoTimer
         /\ c[1].target = state.messageId
         /\ c[1].desc = <<BuildProgressDescription(state)>>
    /\ Len(c) >= 2 =>
         /\ c[2].op = "edit" /\ c[2].kind = "terminal"
         /\ c[2].target = c[1].target /\ c[2].desc = c[1].desc
    /\ Len(c) = 3 =>
         /\ c[3].op = "create" /\ c[3].kind = "terminal"
         /\ c[2].res = "fail" /\ c[3].desc = c[1].desc
    /\ term.done => Len(c) >= 2 /\ c[Len(c)].res # "pending"

\* A completion that arrived while the timer was pending has been written by
\* the terminal edit.
C4_Witness ==
  /\ TimerPendingCase /\ term.done
  /\ Len(term.calls) = 2 /\ term.calls[2].res = "ok"

\* The handling of a completion or failure message that was the next event
\* after resetProgress(undefined, id), with no resetProgress since.
ReusedMessageCase == term.b # 0 /\ term.terminal /\ term.fresh # NoId /\ ~term.reset

\* C5 as stated: such a message edits id and issues no create-message call.
C5_NoCreate ==
  ReusedMessageCase =>
    \A k \in DOMAIN term.calls :
      term.calls[k].op = "edit" /\ term.calls[k].target = term.fresh

\* C5 as amended: such a message edits id, and a create-message call is
\* issued only as the fallback after the terminal edit of id has failed.
C5_EditsReusedMessage ==
  ReusedMessageCase =>
    LET c == term.calls IN
    /\ \A k \in DOMAIN c :
         \/ c[k].op = "edit" /\ c[k].target = term.fresh
         \/ /\ c[k].op = "create" /\ k > 1
            /\ c[k - 1].op = "edit" /\ c[k - 1].kind = "terminal"
            /\ c[k - 1].res = "fail"
    /\ term.done =>
         \E k \in DOMAIN c :
           c[k].op = "edit" /\ c[k].kind = "terminal" /\ c[k].target = term.fresh

\* The completion after resetProgress(undefined, id) has edited id.
C5_Witness ==
  /\ ReusedMessageCase /\ term.done
  /\ term.calls[Len(term.calls)].op = "edit"
  /\ term.calls[Len(term.calls)].res = "ok"

\* C6: while finished is true no create-message call for the progress message
\* is in flight: the messages processed after finalization issue none.
C6_NoCreateAfterFinished ==
  state.finished =>
    \A b \in BatchIds : ~(Running(b) /\ batch[b].pc = "create")

-----------------------------------------------------------------------------
(* resetProgress and failures: C7, C9 *)

\* C7: nothing of a previous run is in the state of the new run: every line
\* held was appended by a batch submitted since the last resetProgress, and a
\* messageId the platform returned was returned to such a batch.
C7_NoCarryOver ==
  /\ \A k \in DOMAIN state.lines : batch[state.lines[k].b].run = resets
  /\ state.messageId >= 10 => batch[state.messageId \div 10].run = resets

\* C9: a failing create-message or edit call made while rendering progress
\* does not abort processing: when a batch has ended, other than by a throw
\* of a system message's own send, no message of it is left unprocessed
\* behind the one handled last.
C9_RenderingFailureSwallowed ==
  \A b \in BatchIds :
    (Ended(b) /\ batch[b].threw # "send") => batch[b].i >= Len(batch[b].msgs)

-----------------------------------------------------------------------------
(* The size of the description: C11, C12, C13 *)

\* C11: the rendered progress description (the trimmed-count header and the
\* lines joined by blank lines) is never longer than MAX_DESCRIPTION_LENGTH.
C11_DescriptionWithinBudget ==
  DescriptionLength(BuildProgressDescription(state)) <= MAX_DESCRIPTION_LENGTH

\* C12: the lines held are the lines pushed since the last resetProgress
\* without the first trimmedCount of them, in the order they were pushed.
C12_NewestLinesKept ==
  /\ Len(state.lines) = Len(pushed) - state.trimmedCount
  /\ \A k \in DOMAIN state.lines : state.lines[k] = pushed[state.trimmedCount + k]

\* A line has been evicted and a newer one is held.
C12_Witness ==
  /\ state.trimmedCount > 0 /\ Len(pushed) >= 2
  /\ state.lines = <<pushed[Len(pushed)]>>

\* C13: a step other than resetProgress never decreases trimmedCount and
\* never empties lines; lines is not empty once a line has been pushed since
\* the last resetProgress.
C13_MonotoneNeverEmptied ==
  /\ [](pushed # <<>> => state.lines # <<>>)
  /\ [][resets' = resets =>
         /\ state'.trimmedCount >= state.trimmedCount
         /\ state.lines # <<>> => state'.lines # <<>>]_vars

\* Eviction has stopped at one line although the description is too long.
C13_Witness ==
  /\ state.trimmedCount > 0 /\ Len(state.lines) = 1
  /\ DescriptionLength(BuildProgressDescription(state)) > MAX_DESCRIPTION_LENGTH

-----------------------------------------------------------------------------
(* The fallback of the terminal write: C14 *)

\* C14: when the handling of a completion or failure message is over (no
\* resetProgress during it) and the platform did not apply its terminal edit
\* of the live message, the same content was sent next as a new message.
C14_FailedEditFallsBack ==
  (term.b # 0 /\ term.terminal /\ term.done /\ ~term.reset) =>
    \A k \in DOMAIN term.calls :
      (term.calls[k].op = "edit" /\ term.calls[k].kind = "terminal"
         /\ term.calls[k].res = "fail") =>
        /\ k < Len(term.calls)
        /\ term.calls[k + 1].op = "create" /\ term.calls[k + 1].kind = "terminal"
        /\ term.calls[k + 1].desc = term.calls[k].desc

-----------------------------------------------------------------------------
(* System messages and the skip filter: C15, C16, C17 *)

\* Batch b is at a message of its loop and takes a step.
StepsAt(b) ==
  /\ Running(b) /\ batch[b].i <= Len(batch[b].msgs)
  /\ batch'[b] # batch[b]

\* The message batch b is at is a system message that is neither skipped nor
\* a completion or failure message.
AtOtherSystem(b) ==
  /\ Running(b) /\ batch[b].i <= Len(batch[b].msgs)
  /\ CurMsg(b).type = "system" /\ ~IsInternalSystem(CurMsg(b))
  /\ ~Skipped(CurMsg(b), skipMessageTypes)

\* The handling of such a message, with no resetProgress during it.
OtherSystemCase == term.b # 0 /\ ~term.terminal /\ ~term.reset

\* C15 as stated: such a message issues no edit of the progress message.
C15_NoEdit ==
  OtherSystemCase => \A k \in DOMAIN term.calls : term.calls[k].op # "edit"

\* C15 as amended: such a message sends exactly one new standalone message,
\* preceded by at most one edit, the forced flush of the progress rendering
\* to the live message; its handling changes no field of ProgressState but
\* editTimer, which it clears.
C15_FlushThenStandalone ==
  /\ [](OtherSystemCase =>
         LET c == term.calls IN
         /\ Len(c) <= 2
         /\ \A k \in DOMAIN c :
              \/ /\ c[k].op = "edit" /\ c[k].kind = "progress" /\ k = 1
                 /\ c[k].target # NoId
                 /\ term.fresh # NoId => c[k].target = term.fresh
              \/ /\ c[k].op = "create" /\ c[k].kind = "system" /\ k = Len(c)
                 /\ c[k].desc = <<>>
         /\ term.done => c # <<>> /\ c[Len(c)].op = "create" /\ c[Len(c)].res # "pending")
  /\ [][\A b \in BatchIds :
          (AtOtherSystem(b) /\ StepsAt(b)) =>
            state' = [state EXCEPT !.editTimer = NoTimer]]_vars

\* A shutdown message that arrived while the timer was pending has been sent
\* after the forced flush.
C15_Witness ==
  /\ OtherSystemCase /\ term.done /\ term.pend
  /\ Len(term.calls) = 2 /\ term.calls[2].res = "ok"
  /\ state.pendingEdit /\ state.editTimer = NoTimer

Reached(b, j) ==
  /\ Started(b)
  /\ j < batch[b].i \/ (j = batch[b].i /\ batch[b].pc = "create")

RECURSIVE TextsUpTo(_, _)
TextsUpTo(b, j) ==
  IF j = 0 THEN <<>>
  ELSE TextsUpTo(b, j - 1) \o
       (IF Reached(b, j) /\ batch[b].msgs[j].type = "text" /\ batch[b].msgs[j].n > 0
        THEN <<batch[b].msgs[j].n>> ELSE <<>>)

RECURSIVE AllTextsUpTo(_)
AllTextsUpTo(k) ==
  IF k = 0 THEN <<>>
  ELSE AllTextsUpTo(k - 1) \o TextsUpTo(k, Len(batch[k].msgs))

\* C17: fullTextMessages holds, in arrival order, the body of every text
\* message with a non-empty body that has been through the loop since the
\* last resetProgress, those the skip filter suppresses included.
C17_AllTextAccumulated ==
  NoResetSinceSubmit => state.fullTextMessages = AllTextsUpTo(NumSubmitted)

-----------------------------------------------------------------------------
(* Worktrees: C18, C19, C20 *)

LastCall == gitCalls[Len(gitCalls)]

\* C18: when createWorktree has added a worktree for a branch and is called
\* again for the branch, the second call returns a result flagged isExisting
\* with the fullPath the first call returned, and runs no worktree add.
C18_SecondCallSamePath ==
  \A k \in 1..(Len(gitCalls) - 1) :
    (/\ gitCalls[k].op = "createWorktree" /\ gitCalls[k].kind = "added"
     /\ gitCalls[k + 1].op = "createWorktree"
     /\ gitCalls[k + 1].branch = gitCalls[k].branch) =>
      /\ gitCalls[k + 1].isExisting
      /\ gitCalls[k + 1].cmds = <<>>
      /\ gitCalls[k + 1].fullPath = gitCalls[k].fullPath

C20_RemovesExactMatchOnly ==
  \A k \in DOMAIN gitCalls :
    gitCalls[k].op = "removeWorktree" =>
      IF gitCalls[k].entries = {}
      THEN gitCalls[k].kind = "notFound" /\ gitCalls[k].cmds = <<>>
      ELSE /\ Len(gitCalls[k].cmds) = 1
           /\ gitCalls[k].cmds[1].cmd = "remove"
           /\ gitCalls[k].cmds[1].path \in gitCalls[k].entries

-----------------------------------------------------------------------------
(* The resolver functions: C21, C22, C23, C24, C25 *)

\* C21: findWorktreeForBranch returns a path only when it is the path of a
\* listed worktree whose branch is the branch asked for, exactly; for a
\* branch that is a prefix or another part of a listed branch, or matches no
\* entry, it returns null.
C21_ExactBranchOnly ==
  \A k \in DOMAIN resolved :
    (resolved[k].fn = "findWorktreeForBranch" /\ resolved[k].result # NoPath) =>
      \E j \in DOMAIN gitEnv.worktrees :
        /\ gitEnv.worktrees[j].branch = resolved[k].arg
        /\ gitEnv.worktrees[j].path = resolved[k].result

\* The listed worktrees directly below the bare repository that exist on
\* disk and carry the marker, in listing order.
ValidCandidates ==
  SelectSeq(gitEnv.worktrees,
            LAMBDA w : /\ Len(w.path) = Len(gitEnv.dir) + 1
                       /\ StartsWith(w.path, gitEnv.dir)
                       /\ w.onDisk /\ w.marked)

\* C22: findWorktreeForBareRepo returns only such a candidate: one whose
\* final segment is main or master if there is one, otherwise the first in
\* listing order, and null if there is none.
C22_PreferredValidCandidate ==
  \A k \in DOMAIN resolved :
    resolved[k].fn = "findWorktreeForBareRepo" =>
      LET r == resolved[k].result
          v == ValidCandidates
          pref == {j \in DOMAIN v : IsPreferred(v[j].path)}
      IN /\ r # NoPath => \E j \in DOMAIN v : v[j].path = r
         /\ pref # {} => IsPreferred(r)
         /\ (pref = {} /\ v # <<>>) => r = v[1].path
         /\ v = <<>> => r = NoPath

\* GIT_BARE_REPO is set to true, in any spelling of its letters.
OverrideSet == gitEnv.override.set /\ IsTrueText(gitEnv.override.value)

\* C23: isBareRepository returns a boolean whatever happens: true whenever
\* the override is set, whatever git would answer; without the override the
\* answer of git, and false when git fails or cannot be started.
C23_OverrideThenToolElseFalse ==
  \A k \in DOMAIN resolved :
    resolved[k].fn = "isBareRepository" =>
      /\ resolved[k].result \in BOOLEAN
      /\ resolved[k].result =
           (IF OverrideSet THEN TRUE
            ELSE IF gitEnv.tool.kind = "answers" THEN gitEnv.tool.answer
            ELSE FALSE)

\* With GIT_BARE_REPO=TRUE the result is true although git answers false.
C23_Witness ==
  /\ gitEnv.fn = "isBareRepository" /\ resolved # <<>>
  /\ gitEnv.override = SetTo(<<"T", "R", "U", "E">>)
  /\ gitEnv.tool = [kind |-> "answers", answer |-> FALSE]
  /\ resolved[1].result = TRUE

\* C24: resolveBaseRepoDir(dir) returns dir for a plain repository that is
\* no worktree, and returns dir when the .git file names no git directory
\* and git fails or cannot be started.
C24_PlainRepoUnchanged ==
  \A k \in DOMAIN resolved :
    resolved[k].fn = "resolveBaseRepoDir" =>
      /\ gitEnv.repo \in {"plain", "inPlain"} => resolved[k].result = gitEnv.workDir
      /\ (gitEnv.repo \notin {"worktree", "bareWorktree"} /\ gitEnv.health # "ok")
           => resolved[k].result = gitEnv.workDir

\* The three outcomes of a command.
OutcomeClass(outcome) ==
  IF outcome.kind = "throws" THEN "execution error"
  ELSE IF outcome.code # 0 THEN "command failure" ELSE "success"

\* C25: the text executeGitCommand returns tells the outcome: two calls with
\* different outcomes (not invoked, exited non-zero, success) never return
\* the same text, and the text of a call that was not invoked or exited
\* non-zero is one a caller classifies as an error.
C25_OutcomeTellable ==
  \A j, k \in DOMAIN resolved :
    (resolved[j].fn = "executeGitCommand" /\ resolved[k].fn = "executeGitCommand") =>
      /\ resolved[j].result = resolved[k].result
           => OutcomeClass(resolved[j].arg) = OutcomeClass(resolved[k].arg)
      /\ OutcomeClass(resolved[k].arg) # "success" => IsCheckError(resolved[k].result)

-----------------------------------------------------------------------------
(* Hooks: C26, C27, C28 *)

\* The event of the call has no hook file in hooksDir.
NoHookFile ==
  /\ hook.pc # "idle"
  /\ \A f \in hookFiles : f.path # HookFile(HooksDir, hook.eventName)

\* C26: a call of executeHook for an event without a hook file in hooksDir
\* does nothing but try to read that file: no resetProgress, no
\* sendClaudeMessages, no run; and it returns false.
C26_MissingHookNoEffect ==
  NoHookFile =>
    /\ \A k \in DOMAIN hook.did : hook.did[k].op = "readTextFile"
    /\ hook.pc \in {"read", "done"}
    /\ hook.pc = "done" => hook.returned = "false"

\* executeHook has returned false for an event without a hook file.
C26_Witness ==
  /\ NoHookFile /\ hook.pc = "done" /\ hook.returned = "false"
  /\ hook.eventName = "worktree-create"

\* C27: the only file executeHook reads is hooksDir/<eventName>.md; when a
\* hook file for the event lies under workDir/hooks or workDirOverride/hooks
\* and none in hooksDir, no run is started and executeHook returns false.
C27_OnlyHooksDir ==
  /\ \A k \in DOMAIN hook.did :
       hook.did[k].op = "readTextFile" =>
         hook.did[k].what = HookFile(HooksDir, hook.eventName)
  /\ (NoHookFile /\ hook.pc = "done"
        /\ \E f \in hookFiles : f.path \in HookPlaces(hook.eventName)) =>
       /\ hook.returned = "false"
       /\ \A k \in DOMAIN hook.did : hook.did[k].op # "sendToClaudeCode"

\* executeHook has returned false although a hook file for the event lies
\* under workDirOverride/hooks.
C27_Witness ==
  /\ NoHookFile /\ hook.pc = "done" /\ hook.returned = "false"
  /\ hook.workDir = WorkDirOverride
  /\ \E f \in hookFiles :
       f.path = HookFile(WorkDirOverride \o <<Dir("hooks")>>, hook.eventName)

\* A key of the map whose placeholder begins at index i of the content.
KeysAt(content, i, variables) ==
  {key \in DOMAIN variables :
     /\ i + Len(Placeholder(key)) - 1 <= Len(content)
     /\ SubSeq(content, i, i + Len(Placeholder(key)) - 1) = Placeholder(key)}

\* The content with every {{key}} whose key is in the map replaced by its
\* value, and nothing else changed.
RECURSIVE Substituted(_, _, _)
Substituted(content, i, variables) ==
  IF i > Len(content) THEN <<>>
  ELSE IF KeysAt(content, i, variables) # {}
  THEN LET key == CHOOSE key \in KeysAt(content, i, variables) : TRUE
       IN variables[key] \o Substituted(content, i + Len(Placeholder(key)), variables)
  ELSE <<content[i]>> \o Substituted(content, i + 1, variables)

\* C28: the prompt of a hook's run is the content of the hook file with
\* every {{key}} whose key is in the variables replaced by its value and
\* every other text, the placeholders of other keys included, untouched.
C28_TemplateApplied ==
  hook.pc \notin {"idle", "read"} /\ ~NoHookFile =>
    hook.prompt =
      Substituted(ReadHookFile(hookFiles, HookFile(HooksDir, hook.eventName)), 1,
                  hook.variables)

-----------------------------------------------------------------------------
(* The states of a run: C29 *)

\* Idle: no message yet; Live: a message that accepts edits; Finished.
RunState(s) ==
  IF s.finished THEN "Finished" ELSE IF s.messageId # NoId THEN "Live" ELSE "Idle"

\* The step is a resetProgress.
ByReset == resets' # resets

\* The step is the return of a create-message call with an identifier.
CreateReturnsId ==
  \E b \in BatchIds :
    /\ Running(b) /\ batch[b].pc = "create" /\ batch'[b].pc # "create"
    /\ state'.messageId = NewId(b, batch[b].i)

\* The step is the return of a create-message call without one.
CreateReturnsNone ==
  \E b \in BatchIds :
    /\ Running(b) /\ batch[b].pc = "create" /\ batch'[b].pc # "create"
    /\ state'.messageId # NewId(b, batch[b].i)

\* The step belongs to the handling of a completion or failure message.
TerminalHandled ==
  \E b \in BatchIds :
    /\ Running(b) /\ batch[b].i <= Len(batch[b].msgs)
    /\ IsInternalSystem(CurMsg(b)) /\ batch'[b] # batch[b]

\* C29: the state of a run changes only from Idle to Live by a create call
\* that returns an identifier, to Finished by a completion or failure message
\* (from Live, and from Idle when the message arrives before any line), and
\* to Idle or Live by resetProgress; once Finished the run takes no new
\* message until resetProgress; a create call that returns no identifier
\* leaves the run Idle and keeps its lines.
C29_RunStateMachine ==
  [][/\ RunState(state') # RunState(state) =>
          \/ ByReset /\ RunState(state') \in {"Idle", "Live"}
          \/ /\ RunState(state) = "Idle" /\ RunState(state') = "Live"
             /\ CreateReturnsId
          \/ /\ RunState(state) \in {"Idle", "Live"}
             /\ RunState(state') = "Finished"
             /\ TerminalHandled
     /\ (state.finished /\ ~ByReset) => state'.messageId = state.messageId
     /\ CreateReturnsNone =>
          /\ RunState(state) = "Idle" => RunState(state') = "Idle"
          /\ state'.lines = state.lines]_vars

-----------------------------------------------------------------------------
(* The debounce of the edits: C30 *)

\* The step appends a line while the run has a message.
LineAppendedWhileLive ==
  /\ Len(pushed') = Len(pushed) + 1
  /\ state.messageId # NoId

\* The step is the firing of a timeout.
TimerFires ==
  /\ Len(timers') < Len(timers)
  /\ resets' = resets /\ batch' = batch

\* C30: a line appended while the run has a message issues no edit call: the
\* timeout set before is cleared and one is set, so that never more than one
\* timeout is still to fire, and the firing of a timeout issues at most one
\* edit call.
C30_Debounced ==
  /\ [](Len(timers) <= 1)
  /\ [][/\ LineAppendedWhileLive =>
            /\ edits' = edits /\ term' = term /\ inflightEdit' = inflightEdit
            /\ \A b \in BatchIds : batch'[b] # batch[b] => batch'[b].pc = "loop"
            /\ Len(timers') = 1 /\ state'.editTimer = timers'[1]
            /\ state'.pendingEdit
        /\ TimerFires =>
            /\ Len(edits') <= Len(edits) + 1 /\ term' = term
            /\ state'.editTimer = NoTimer /\ ~state'.pendingEdit]_vars

\* Two lines of one batch were appended to a run that started with a message:
\* the second found the timeout of the first still to fire.
C30_Witness ==
  /\ Len(pushed) = 2 /\ pushed[1].b = pushed[2].b
  /\ state.messageId \in ResetIds
  /\ timers = <<pushed[2].b>> /\ state.editTimer = pushed[2].b
  /\ edits = <<>>

-----------------------------------------------------------------------------
(* No line is lost: C31 *)

\* The lines a run of the bounded sender can hold.
LineIds ==
  {[b |-> b, i |-> i, len |-> MessageToSummaryLine(m)] :
     b \in BatchIds, i \in 1..RaceMsgs, m \in MsgUniverse}

Held(l) == \E k \in DOMAIN state.lines : state.lines[k] = l

-----------------------------------------------------------------------------
(* Where and how createWorktree adds: C32 *)

\* The step is a call of createWorktree that runs git worktree add.
CreateWorktreeAdds ==
  /\ gitCalls' # gitCalls
  /\ LastCall'.op = "createWorktree"
  /\ LastCall'.cmds # <<>>

-----------------------------------------------------------------------------
(* One base directory for a repository: C33 *)

\* The target path createWorktree computes for a branch from a base
\* directory of the repository.
TargetFrom(base, branch) ==
  Normalize(WorktreeDir(base, gitEnv.bare, branch))

\* C33: the calls of resolveBaseRepoDir for the main directory of a
\* repository and for its linked worktree return the same directory, so that
\* createWorktree has one target path for a branch; a call for the
\* directory a call returned returns it again.
C33_Canonical ==
  gitEnv.fn = "repository" =>
    \A j, k \in DOMAIN resolved :
      /\ {resolved[j].arg, resolved[k].arg} \subseteq {MainRepoDir, LinkedWorktreeDir} =>
           /\ resolved[j].result = resolved[k].result
           /\ \A branch \in Branches :
                TargetFrom(resolved[j].result, branch) =
                  TargetFrom(resolved[k].result, branch)
      /\ resolved[k].arg = resolved[j].result => resolved[k].result = resolved[k].arg

-----------------------------------------------------------------------------
(* Runs of the command handlers and of the hooks: C34 to C40 *)

\* The run started last.
Newest == NumStarted

\* The indices of the terminal messages run r has submitted.
TerminalsOf(r) ==
  {k \in DOMAIN outbox : outbox[k].run = r /\ outbox[k].kind # "stream"}

\* C34: a terminal message finishes only the run that submitted it: the
\* ProgressState a run's resetProgress made is never marked finished, and its
\* message never overwritten, by the terminal message of an older run.
C34_TerminalFinishesOwnRun ==
  progress.finished => ~(progress.finishedBy < progress.run)

\* C35: from the start of a run until its end or its cancellation the stored
\* controller is that run's controller; the end of an older run does not
\* clear it, so that onClaudeCancel finds it.
C35_NewestControllerStored ==
  (Newest > 0 /\ runs[Newest].pc \in {"defer", "query"} /\ ~runs[Newest].aborted)
    => claudeController = Newest

\* C36: a run submits one terminal message, when sendToClaudeCode has
\* settled and not before: completion if it returned, failure if it threw;
\* every streamed batch of the run is before it in the queue, which the
\* sender processes in order.
C36_OneTerminalLast ==
  /\ \A r \in RunIds :
       /\ Cardinality(TerminalsOf(r)) = (IF runs[r].pc = "done" THEN 1 ELSE 0)
       /\ \A k \in TerminalsOf(r) :
            /\ runs[r].result.kind = "returned" => outbox[k].kind = "completion"
            /\ runs[r].result.kind = "threw" => outbox[k].kind = "failure"
            /\ \A j \in DOMAIN outbox : outbox[j].run = r /\ j # k => j < k
  /\ progress.processed \in 0..Len(outbox)

\* A run streamed a batch and threw, another returned, and the sender has
\* processed the queue to its end.
C36_Witness ==
  /\ \E r \in RunIds, j, k \in DOMAIN outbox :
       /\ outbox[j] = Batch(r, "stream") /\ outbox[k] = Batch(r, "failure")
       /\ runs[r].result.kind = "threw"
  /\ \E r \in RunIds, k \in DOMAIN outbox :
       outbox[k] = Batch(r, "completion") /\ runs[r].result.kind = "returned"
  /\ progress.processed = Len(outbox)

\* The places in hook.did of the calls of an operation.
DidOf(op) == {k \in DOMAIN hook.did : hook.did[k].op = op}

\* The places in hook.did of the terminal messages submitted.
HookTerminals ==
  {k \in DOMAIN hook.did : hook.did[k].op = "sendClaudeMessages"
                             /\ hook.did[k].what # "stream"}

IsExitCode1_Whole(error) ==
  /\ Len(error.message) >= 2
  /\ error.message[Len(error.message) - 1] \in {"exit code ", "exited with code "}
  /\ error.message[Len(error.message)] = "1"

\* C38: sendToClaudeCode makes at most two attempts, and the second only
\* after the first failed with an error of exit code 1; an error of another
\* exit code is rethrown without a retry.
C38_RetryOnlyOnExitCode1 ==
  \A r \in RunIds :
    /\ runs[r].attempt <= 2
    /\ runs[r].attempt = 2 <=> runs[r].retried # <<>>
    /\ runs[r].retried # <<>> => IsExitCode1_Whole(runs[r].retried[1])

\* C39: once the controller of a run is aborted, the next step of its query
\* ends sendToClaudeCode with a result that has aborted = true: nothing is
\* given to onStreamJson, no attempt is started and nothing is thrown.
C39_AbortedReturnsAborted ==
  [][\A r \in RunIds :
       (runs[r].pc = "query" /\ runs[r].aborted /\ runs'[r] # runs[r]) =>
         /\ runs'[r].pc = "done"
         /\ runs'[r].result.kind = "returned" /\ runs'[r].result.aborted
         /\ runs'[r].attempt = runs[r].attempt
         /\ runs'[r].delivered = runs[r].delivered
         /\ \A k \in DOMAIN outbox' \ DOMAIN outbox : outbox'[k] # Batch(r, "stream")]_vars

\* An aborted run whose query threw an error that is neither an AbortError
\* nor an exit with code 143 has returned an aborted result, and so has a run
\* that was not aborted and whose query exited with code 143.
C39_Witness ==
  \E r \in RunIds :
    /\ runs[r].aborted /\ runs[r].pc = "done"
    /\ runs[r].result = Returns(TRUE, NoSession)
    /\ runs[r].delivered = MaxEvents

\* C40: after an onClaudeCancel that found a controller the stored session
\* id stays cleared until a run started after the cancel stores one.
C40_SessionStaysCleared ==
  \A k \in DOMAIN cancels :
    IF cancels[k].result
    THEN claudeSessionId = NoSession \/ claudeSessionId > cancels[k].started
    ELSE cancels[k].found = NoController

====
